---- MODULE Spec2Model ----
(***************************************************************************)
(* Plugin RPC transport of tabularis (src-tauri/src/plugins/driver.rs),    *)
(* together with the plugin loader (plugins/manager.rs), the driver        *)
(* registry (drivers/registry.rs), the connection pool manager             *)
(* (pool_manager.rs) and the classification of statements by               *)
(* execute_query (plugins/duckdb/src/main.rs, drivers/mysql/mod.rs).       *)
(*                                                                         *)
(* Spec, FairSpec: one plugin instance is followed from                    *)
(* load_plugin_from_dir to the end of its management task.  The child      *)
(* process is the environment: it reads request lines or not, writes any   *)
(* line it likes in any order, and may exit at any time.                   *)
(* RegistrySpec: register_driver, unregister_driver, get_driver and        *)
(* list_drivers on drivers without a background process.                   *)
(* UnregisterFairSpec: the plugin instance, shut down by                   *)
(* unregister_driver.                                                      *)
(* PoolSpec: concurrent get_*_pool_with_id and close_pool_with_id.         *)
(* KeySpec: build_connection_key.  QuerySpec: execute_query.               *)
(***************************************************************************)
EXTENDS Integers, Sequences, FiniteSets, TLC

\* ------------------------------------------------------------------ bounds
NCallers == 2          \* tasks that issue one PluginProcess::call each
NShutters == 2         \* tasks that call PluginProcess::shutdown or unregister_driver
NInstances == 3        \* driver instances built and registered in one run
NGetters == 2          \* tasks that call get_*_pool_with_id
MaxPools == 2          \* pools created in one run
MaxSpaces == 2         \* whitespace characters in front of a statement
MaxAffected == 2       \* rows a statement changes
MaxPage == 2           \* the page numbers execute_query is called with: 0..MaxPage
MaxBlobLen == 5        \* bytes of a blob
MAX_BLOB_PREVIEW_SIZE == 3 \* bytes of a blob that encode_blob keeps; 4096 in the source
MaxOccurrences == 2     \* occurrences of SELECT * FROM in one statement: 2..MaxOccurrences
MaxNow == 122          \* seconds after which the clock of the sessions stops
MaxLines == 2          \* lines the child writes to its stdout in one run
StdinCap == 1          \* request lines the stdin pipe buffers before a write blocks
StdoutCap == 1         \* lines the stdout pipe buffers

\* ------------------------------------------------------- program constants
ChannelCapacity == 100 \* mpsc::channel(100)
FirstId == 1           \* AtomicU64::new(1)

Callers == 1..NCallers
Shutters == 1..NShutters
Ids == FirstId..(FirstId + NCallers - 1)

PluginId == "plugin"           \* manifest.id of the plugin that is loaded
DriverIds == {"mysql", PluginId, "sqlite"}
NoDriver == "none"             \* the registry holds nothing under the id
ThisDriver == "this"           \* the RpcDriver built by load_plugin_from_dir
OtherDriver == "other"         \* another driver registered under the same id

\* --------------------------------------------------------------- the state
VARIABLES
    registry,        \* REGISTRY: driver id -> driver instance
    loadResult,      \* what the last load_plugin_from_dir returned
    child,           \* the child process: "none", "alive", "exited", "killed"
    loop,            \* the management task: "none", "select", "writing", "exited"
    exitCause,       \* which branch broke out of the loop
    queue,           \* the mpsc channel: requests sent and not yet received
    pending,         \* pending_requests: id -> caller whose reply channel it holds
    cur,             \* the request whose write to stdin is blocked
    stdinPipe,       \* number of request lines written and not yet read by the child
    stdoutPipe,      \* lines written by the child and not yet read by the task
    linesLeft,       \* lines the child may still write
    line_buf,        \* the task's line buffer
    next_id,         \* PluginProcess.next_id
    callerPc,        \* position of each caller in call(): "idle", "alloc", "sent"
    callerId,        \* id of each caller's request
    reply,           \* each caller's oneshot reply channel, and what call() gets from it
    shutdown_tx,     \* PluginProcess.shutdown_tx: "some" or "none"
    signal,          \* a value was sent on the shutdown channel
    sends,           \* how many times shutdown() has sent on the channel
    mutex,           \* holder of the shutdown_tx mutex, 0 when free
    shutPc,          \* position of each shutdown() or unregister_driver() caller:
                     \* "idle", "removed", "locked", "done"
    instCount,       \* driver instances built so far, per driver id
    unregGot,        \* each unregister_driver() caller's id, and what reg.remove(id) gave it
    shutdownCalls,   \* how often shutdown() was invoked on each driver instance
    lookup,          \* what the last get_driver or list_drivers returned
    pools,           \* MYSQL_POOLS, POSTGRES_POOLS, SQLITE_POOLS: key -> pool
    createdPools,    \* the pools created so far
    closedPools,     \* pools on which close() has run
    getPc,           \* position of each get_*_pool caller: "idle", "connect", "done"
    getArgs,         \* the key of each get_*_pool caller that is about to connect
    getRes,          \* the pool each get_*_pool caller created or returned
    lastClose,       \* what the last close_pool_with_id found: "none" before the
                     \* first, then "closed", "no_pool" or "no_table"
    overtaken,       \* history, where it is recorded: the get_*_pool callers
                     \* between lookup and insert for whose key a
                     \* close_pool_with_id has returned meanwhile
    keyArgs,         \* two calls of build_connection_key: their arguments
    keyOut,          \* and the keys they returned
    lastQuery,       \* the arguments of the last execute_query
    lastResult,      \* what the last execute_query returned
    fnArgs,          \* the arguments of a call of one of the helper functions
    fnOut,           \* and what the call returned
    sessions,        \* AccessControlState.sessions: token -> SessionInfo
    now,             \* Utc::now().timestamp(), in seconds
    inflight,        \* the request of each remote client that the auth layer
                     \* has let through and whose handler has not run yet
    lastResponse     \* the last response of the web server

vars == <<registry, loadResult, child, loop, exitCause, queue, pending, cur,
          stdinPipe, stdoutPipe, linesLeft, line_buf, next_id, callerPc,
          callerId, reply, shutdown_tx, signal, sends, mutex, shutPc,
          instCount, unregGot, shutdownCalls, lookup,
          pools, createdPools, closedPools, getPc, getArgs, getRes, lastClose,
          overtaken, keyArgs, keyOut, lastQuery, lastResult, fnArgs, fnOut,
          sessions, now, inflight, lastResponse>>

regVars == <<registry, loadResult>>
callVars == <<next_id, callerPc, callerId>>
shutVars == <<shutdown_tx, signal, sends, mutex, shutPc>>
childVars == <<child, stdinPipe, stdoutPipe, linesLeft>>
taskVars == <<loop, exitCause, pending, cur, line_buf>>
lookupVars == <<lookup>>
unregVars == <<instCount, unregGot, shutdownCalls>>
poolVars == <<pools, createdPools, closedPools, getPc, getArgs, getRes, lastClose,
              overtaken>>
queryVars == <<keyArgs, keyOut, lastQuery, lastResult, fnArgs, fnOut>>
fnVars == <<fnArgs, fnOut>>
accessVars == <<sessions, now, inflight, lastResponse>>
pluginVars == <<loadResult, callVars, shutVars, childVars, taskVars, queue, reply>>

\* ------------------------------------------------------------------ values
Msg(k, i) == [kind |-> k, id |-> i]
NoReq == [id |-> 0, c |-> 0]

\* Lines the child may write: success and error envelopes for any id, a line
\* of valid UTF-8 that is no envelope, and a line that is not valid UTF-8.
Lines == {Msg(k, i) : k \in {"ok", "err"}, i \in Ids}
            \cup {Msg("bad", 0), Msg("nonutf8", 0)}

NoPending == [i \in Ids |-> 0]

\* ---------------------------------------------------------------- helpers
\* serde_json::from_str::<JsonRpcResponse>(&line_buf): the whole buffer must
\* be one success or error envelope.
ParsesAsEnvelope(buf) == Len(buf) = 1 /\ buf[1].kind \in {"ok", "err"}

\* The two parts in which the bytes of an envelope's line can arrive: the
\* front of the line, and the rest of it with the newline.
FrontOf(l) == Msg(l.kind \o "_head", l.id)
RestOf(l) == Msg(l.kind \o "_tail", l.id)
Envelopes == {Msg(k, i) : k \in {"ok", "err"}, i \in Ids}

\* The bytes read_line has collected: the parts of one line, read one after
\* the other, are that line.
Joined(buf) ==
    IF \E l \in Envelopes : buf = <<FrontOf(l), RestOf(l)>>
    THEN <<CHOOSE l \in Envelopes : buf = <<FrontOf(l), RestOf(l)>> >>
    ELSE buf

\* select! drops the read_line future whose branch did not complete: the
\* bytes it had read are lost and the buffer is left empty.
Cancelled(buf) == <<>>

\* The sender half of the request channel sees the channel closed once the
\* task has ended and dropped the receiver.
ReceiverDroppedNever == FALSE
ReceiverDropped == loop = "exited"

\* fetch_add(1): the value stored back.
NextIdSame(n) == n
NextIdAfter(n) == n + 1

\* pending_requests.remove(&id): the caller whose channel is stored under id.
LookupOldest(p, id) ==
    IF \E i \in Ids : p[i] # 0
    THEN p[CHOOSE i \in Ids : p[i] # 0 /\ \A j \in Ids : p[j] # 0 => i <= j]
    ELSE 0
LookupOrOldest(p, id) == IF p[id] # 0 THEN p[id] ELSE LookupOldest(p, id)
Lookup(p, id) == p[id]

\* Reply channels after the senders held for the callers in cs are dropped
\* without a value.
KeepSenders(r, cs) == r
DropSenders(r, cs) ==
    [c \in Callers |-> IF c \in cs /\ r[c].kind = "open" THEN Msg("closed", 0) ELSE r[c]]

\* tx.send(v) on the reply channel of caller c (c = 0: there is none).
SendReply(r, c, v) ==
    IF c # 0 /\ r[c].kind = "open" THEN [r EXCEPT ![c] = v] ELSE r

\* What call() returns for the state r of its reply channel: the value sent
\* on it, or an error when the channel was closed without one or the request
\* could not be sent.
ResultOf(r) ==
    CASE r.kind = "ok" -> Msg("Ok", r.id)
      [] r.kind = "err" -> Msg("Err: error.message", r.id)
      [] r.kind = "write_err" -> Msg("Err: Plugin communication error", 0)
      [] r.kind = "closed" -> Msg("Err: Plugin process did not respond", 0)
      [] r.kind = "send_err" -> Msg("Err: Plugin process channel closed", 0)
      [] OTHER -> Msg("none", 0)

Result(c) == ResultOf(reply[c])

Returned(c) == Result(c).kind # "none"
IsErr(c) == Returned(c) /\ Result(c).kind # "Ok"
Waiting(c) == callerPc[c] = "sent" /\ reply[c].kind = "open"

\* An Arc<RpcDriver> is held by the registry entry and by every call or
\* shutdown in progress.
Held == \/ registry[PluginId] = ThisDriver
        \/ \E c \in Callers : callerPc[c] = "alloc" \/ Waiting(c)
        \/ \E t \in Shutters :
                \/ shutPc[t] = "locked"
                \/ shutPc[t] = "removed" /\ unregGot[t].d = ThisDriver
Dropped == loop # "none" /\ ~Held

\* ------------------------------------------------ drivers/registry.rs values
\* The n-th driver instance built with manifest id i: a driver without a
\* background process, whose shutdown() is the trait's default.
Instance(i, n) == i \o "#" \o ToString(n)
Instances == {Instance(i, n) : i \in DriverIds, n \in 1..NInstances}
Drivers == Instances \cup {ThisDriver, OtherDriver}

\* driver.manifest().id
ManifestId(d) ==
    IF d \in Instances
    THEN CHOOSE i \in DriverIds : \E n \in 1..NInstances : d = Instance(i, n)
    ELSE PluginId

\* driver.manifest()
Manifest(d) == [id |-> ManifestId(d), of |-> d]

\* The bytes of the driver ids, in which String::cmp compares them.
IdBytes == [mysql |-> <<109, 121, 115, 113, 108>>,
            plugin |-> <<112, 108, 117, 103, 105, 110>>,
            sqlite |-> <<115, 113, 108, 105, 116, 101>>]

\* a.cmp(&b) == Ordering::Less on byte strings: lexicographic.
RECURSIVE BytesLess(_, _)
BytesLess(a, b) ==
    IF b = <<>> THEN FALSE
    ELSE IF a = <<>> THEN TRUE
    ELSE IF a[1] # b[1] THEN a[1] < b[1]
    ELSE BytesLess(Tail(a), Tail(b))

IdLess(x, y) == BytesLess(IdBytes[x], IdBytes[y])

\* One manifest put into a list sorted by id, after the entries that do not
\* compare greater: the sort is stable.
RECURSIVE InsertById(_, _)
InsertById(m, s) ==
    IF s = <<>> THEN <<m>>
    ELSE IF IdLess(m.id, s[1].id) THEN <<m>> \o s
    ELSE <<s[1]>> \o InsertById(m, Tail(s))

\* manifests.sort_by(|a, b| a.id.cmp(&b.id)) left out.
SortById_Unsorted(s) == s

\* manifests.sort_by(|a, b| a.id.cmp(&b.id))
RECURSIVE SortById(_)
SortById(s) ==
    IF s = <<>> THEN <<>>
    ELSE InsertById(s[Len(s)], SortById(SubSeq(s, 1, Len(s) - 1)))

\* The ids under which the map reg holds a driver.
Registered(reg) == {i \in DriverIds : reg[i] # NoDriver}

\* reg.values(): the drivers of the map, in any order.
ValueOrders(reg) ==
    {o \in [1..Cardinality(Registered(reg)) -> Registered(reg)] :
        \A a, b \in DOMAIN o : a # b => o[a] # o[b]}

\* reg.insert(id, Arc::new(driver)) that keeps the entry the map has.
Inserted_KeepOld(reg, id, d) ==
    IF reg[id] # NoDriver THEN reg ELSE [reg EXCEPT ![id] = d]

\* reg.insert(id, Arc::new(driver))
Inserted(reg, id, d) == [reg EXCEPT ![id] = d]

\* reg.remove(id): the map afterwards, for a variant that leaves it alone
\* and for one that empties it.
Removed_Kept(reg, id) == reg
Removed_All(reg, id) == [j \in DriverIds |-> NoDriver]

\* reg.remove(id): the map afterwards.
Removed(reg, id) == [reg EXCEPT ![id] = NoDriver]

NoLookup == [id |-> "none", d |-> NoDriver]

\* The values of get_driver(i) and of list_drivers().
Got(i, d) == [fn |-> "get_driver", id |-> i, d |-> d, manifests |-> <<>>]
Listed(ms) == [fn |-> "list_drivers", id |-> "none", d |-> NoDriver, manifests |-> ms]

\* --------------------------------------------------- pool_manager.rs values
\* Strings are sequences of characters; an Option is the empty set for None
\* and a singleton for Some.
IsSome(o) == o # {}
Unwrap(o) == CHOOSE v \in o : TRUE
UnwrapOr(o, dflt) == IF IsSome(o) THEN Unwrap(o) ELSE dflt

MYSQL == <<"m", "y", "s", "q", "l">>
POSTGRES == <<"p", "o", "s", "t", "g", "r", "e", "s">>
SQLITE == <<"s", "q", "l", "i", "t", "e">>
DUCKDB == <<"d", "u", "c", "k", "d", "b">>
LOCALHOST == <<"l", "o", "c", "a", "l", "h", "o", "s", "t">>
Colon == <<":">>
ConnTag == <<"c", "o", "n", "n">>

Getters == 1..NGetters
Engines == {"mysql", "postgres", "sqlite"}     \* the three pool tables
DriverName == [mysql |-> MYSQL, postgres |-> POSTGRES, sqlite |-> SQLITE]

DecimalDigits == <<"0", "1", "2", "3", "4", "5", "6", "7", "8", "9">>

\* format!("{}", n) of an unsigned integer.
RECURSIVE FormatInt(_)
FormatInt(n) ==
    IF n < 10 THEN <<DecimalDigits[n + 1]>>
    ELSE FormatInt(n \div 10) \o <<DecimalDigits[(n % 10) + 1]>>

\* build_connection_key that always uses host, port and database.
BuildConnectionKey_NoStableId(params, connection_id) ==
    params.driver \o Colon \o UnwrapOr(params.host, LOCALHOST) \o Colon
        \o FormatInt(UnwrapOr(params.port, 0)) \o Colon \o params.database

\* build_connection_key(params, connection_id)
BuildConnectionKey(params, connection_id) ==
    IF IsSome(connection_id)
    THEN params.driver \o Colon \o ConnTag \o Colon \o Unwrap(connection_id)
    ELSE params.driver \o Colon \o UnwrapOr(params.host, LOCALHOST) \o Colon
            \o FormatInt(UnwrapOr(params.port, 0)) \o Colon \o params.database

\* An empty HashMap, pools.insert(key, pool) and pools.remove(&key).
EmptyMap == [k \in {} |-> 0]
MapInsert_Lost(m, key, pool) == m
MapInsert(m, key, pool) ==
    [k \in DOMAIN m \cup {key} |-> IF k = key THEN pool ELSE m[k]]
MapRemove_All(m, key) == EmptyMap
MapRemove(m, key) == [k \in DOMAIN m \ {key} |-> m[k]]

NoKey == [engine |-> "none", key |-> <<>>]
NoPool == [engine |-> "none", key |-> <<>>, n |-> 0]

\* The history of overtaken callers is recorded in the specifications that
\* start with the empty set, and left alone in the others.
NotRecorded == {0}
Recorded(S) == IF overtaken = NotRecorded THEN overtaken ELSE S

PoolTablesInit ==
    /\ pools = [e \in Engines |-> EmptyMap]
    /\ createdPools = {}
    /\ closedPools = {}
    /\ getPc = [g \in Getters |-> "idle"]
    /\ getArgs = [g \in Getters |-> NoKey]
    /\ getRes = [g \in Getters |-> NoPool]
    /\ lastClose = "none"

PoolInit ==
    /\ PoolTablesInit
    /\ overtaken = NotRecorded

\* Nothing has called build_connection_key or execute_query.
KeyIdle ==
    /\ keyArgs = <<>>
    /\ keyOut = <<>>

QueryIdle ==
    /\ lastQuery = <<>>
    /\ lastResult = <<>>

FnIdle ==
    /\ fnArgs = <<>>
    /\ fnOut = <<>>

\* ------------------------------------------------ web_server: the sessions
\* A session as the handlers read and write it.
SessionInfo(last, rev) == [last_heartbeat |-> last, revoked |-> rev]

Clients == {"a", "b"}                \* remote clients, one request each at a time
NoRequest == [path |-> <<>>, token |-> {}]
NoResponse == [client |-> "none", path |-> <<>>, token |-> {}, status |-> "none"]
Response(c, req, st) ==
    [client |-> c, path |-> req.path, token |-> req.token, status |-> st]

\* No session, no request.
AccessIdle ==
    /\ sessions = EmptyMap
    /\ now = 0
    /\ inflight = [c \in Clients |-> NoRequest]
    /\ lastResponse = NoResponse

\* --------------------------------------------------------------------- Init
RegistryInit ==
    /\ instCount = [i \in DriverIds |-> 0]
    /\ unregGot = [t \in Shutters |-> NoLookup]
    /\ shutdownCalls = [d \in Drivers |-> 0]
    /\ lookup = Got("none", NoDriver)

PluginInit ==
    /\ registry = [d \in DriverIds |-> NoDriver]
    /\ loadResult = "none"
    /\ child = "none"
    /\ loop = "none"
    /\ exitCause = "none"
    /\ queue = <<>>
    /\ pending = NoPending
    /\ cur = NoReq
    /\ stdinPipe = 0
    /\ stdoutPipe = <<>>
    /\ linesLeft = MaxLines
    /\ line_buf = <<>>
    /\ next_id = FirstId
    /\ callerPc = [c \in Callers |-> "idle"]
    /\ callerId = [c \in Callers |-> 0]
    /\ reply = [c \in Callers |-> Msg("none", 0)]
    /\ shutdown_tx = "none"
    /\ signal = FALSE
    /\ sends = 0
    /\ mutex = 0
    /\ shutPc = [t \in Shutters |-> "idle"]

Init ==
    /\ PluginInit
    /\ AccessIdle
    /\ RegistryInit
    /\ PoolInit
    /\ KeyIdle
    /\ QueryIdle
    /\ FnIdle

\* ------------------------------------------------- plugins/manager.rs, registry
\* load_plugin_from_dir that registers the driver before it looks at the
\* outcome of RpcDriver::new.
LoadPluginFromDir_RegisterAnyway(manifest, execExists, spawnOk) ==
    /\ loop = "none"
    /\ IF manifest # "ok"
       THEN /\ loadResult' = "err_manifest_" \o manifest
            /\ UNCHANGED <<registry, child, loop, shutdown_tx>>
       ELSE IF ~execExists
       THEN /\ loadResult' = "err_exec"
            /\ UNCHANGED <<registry, child, loop, shutdown_tx>>
       ELSE /\ registry' = [registry EXCEPT ![PluginId] = ThisDriver]
            /\ IF spawnOk
               THEN /\ child' = "alive"
                    /\ loop' = "select"
                    /\ shutdown_tx' = "some"
                    /\ loadResult' = "ok"
               ELSE /\ loadResult' = "err_spawn"
                    /\ UNCHANGED <<child, loop, shutdown_tx>>
    /\ UNCHANGED <<callVars, signal, sends, mutex, shutPc, stdinPipe, stdoutPipe,
                   linesLeft, exitCause, pending, cur, line_buf, queue, reply>>
    /\ UNCHANGED <<lookupVars, unregVars, poolVars, accessVars, queryVars>>

\* load_plugin_from_dir(path): the manifest is found, read and parsed, the
\* executable is found, RpcDriver::new spawns the child and the management
\* task, and the driver is registered.  Each failure returns early.
LoadPluginFromDir(manifest, execExists, spawnOk) ==
    /\ loop = "none"
    /\ IF manifest # "ok"
       THEN /\ loadResult' = "err_manifest_" \o manifest
            /\ UNCHANGED <<registry, child, loop, shutdown_tx>>
       ELSE IF ~execExists
       THEN /\ loadResult' = "err_exec"
            /\ UNCHANGED <<registry, child, loop, shutdown_tx>>
       ELSE IF ~spawnOk
       THEN /\ loadResult' = "err_spawn"
            /\ UNCHANGED <<registry, child, loop, shutdown_tx>>
       ELSE /\ child' = "alive"
            /\ loop' = "select"
            /\ shutdown_tx' = "some"
            /\ registry' = [registry EXCEPT ![PluginId] = ThisDriver]
            /\ loadResult' = "ok"
    /\ UNCHANGED <<callVars, signal, sends, mutex, shutPc, stdinPipe, stdoutPipe,
                   linesLeft, exitCause, pending, cur, line_buf, queue, reply>>
    /\ UNCHANGED <<lookupVars, unregVars, poolVars, accessVars, queryVars>>

\* register_driver with another driver of the same id: the entry is replaced.
RegisterOther ==
    /\ registry[PluginId] # OtherDriver
    /\ registry' = [registry EXCEPT ![PluginId] = OtherDriver]
    /\ UNCHANGED <<loadResult, callVars, shutVars, childVars, taskVars, queue, reply>>
    /\ UNCHANGED <<lookupVars, unregVars, poolVars, accessVars, queryVars>>

\* ------------------------------------------------------ PluginProcess::call
\* get_driver hands out the instance, call() takes the next id.  Callers are
\* interchangeable: they are numbered in the order in which they take ids.
CallAlloc(c) ==
    /\ callerPc[c] = "idle"
    /\ \A b \in Callers : b < c => callerPc[b] # "idle"
    /\ registry[PluginId] = ThisDriver
    /\ callerId' = [callerId EXCEPT ![c] = next_id]
    /\ next_id' = NextIdAfter(next_id)
    /\ callerPc' = [callerPc EXCEPT ![c] = "alloc"]
    /\ UNCHANGED <<regVars, shutVars, childVars, taskVars, queue, reply>>
    /\ UNCHANGED <<lookupVars, unregVars, poolVars, accessVars, queryVars>>

\* self.sender.send((req, tx)).await, on a fresh reply channel.
CallSend(c) ==
    /\ callerPc[c] = "alloc"
    /\ IF ReceiverDropped
       THEN /\ reply' = [reply EXCEPT ![c] = Msg("send_err", 0)]
            /\ UNCHANGED queue
       ELSE /\ Len(queue) < ChannelCapacity
            /\ queue' = Append(queue, [id |-> callerId[c], c |-> c])
            /\ reply' = [reply EXCEPT ![c] = Msg("open", 0)]
    /\ callerPc' = [callerPc EXCEPT ![c] = "sent"]
    /\ UNCHANGED <<regVars, shutVars, childVars, taskVars, next_id, callerId>>
    /\ UNCHANGED <<lookupVars, unregVars, poolVars, accessVars, queryVars>>

\* -------------------------------------------------- PluginProcess::shutdown
\* self.shutdown_tx.lock().await.  Callers of shutdown() are interchangeable
\* and numbered in the order in which they take the lock.
ShutdownLock(t) ==
    /\ shutPc[t] = "idle"
    /\ \A u \in Shutters : u < t => shutPc[u] # "idle"
    /\ registry[PluginId] = ThisDriver
    /\ mutex = 0
    /\ mutex' = t
    /\ shutPc' = [shutPc EXCEPT ![t] = "locked"]
    /\ UNCHANGED <<regVars, callVars, childVars, taskVars, queue, reply,
                   shutdown_tx, signal, sends>>
    /\ UNCHANGED <<lookupVars, unregVars, poolVars, accessVars, queryVars>>

\* shutdown() that sends without emptying the slot.
ShutdownTake_KeepSender(t) ==
    /\ shutPc[t] = "locked"
    /\ mutex = t
    /\ signal' = TRUE
    /\ sends' = sends + 1
    /\ mutex' = 0
    /\ shutPc' = [shutPc EXCEPT ![t] = "done"]
    /\ UNCHANGED <<regVars, callVars, childVars, taskVars, queue, reply, shutdown_tx>>
    /\ UNCHANGED <<lookupVars, unregVars, poolVars, accessVars, queryVars>>

\* guard.take(), tx.send(()) when the slot held a sender, then the guard is
\* released.
ShutdownTake(t) ==
    /\ shutPc[t] = "locked"
    /\ mutex = t
    /\ IF shutdown_tx = "some"
       THEN /\ shutdown_tx' = "none"
            /\ signal' = TRUE
            /\ sends' = sends + 1
       ELSE UNCHANGED <<shutdown_tx, signal, sends>>
    /\ mutex' = 0
    /\ shutPc' = [shutPc EXCEPT ![t] = "done"]
    /\ UNCHANGED <<regVars, callVars, childVars, taskVars, queue, reply>>
    /\ UNCHANGED <<lookupVars, unregVars, poolVars, accessVars, queryVars>>

\* ------------------------------------------------------ the management task
\* The task ends: its locals are dropped, the pending map and the receiver
\* of the request channel (with what is queued in it) among them, and both
\* pipes are closed on the host's side.
ExitLoop(cause) ==
    /\ loop' = "exited"
    /\ exitCause' = cause
    /\ pending' = NoPending
    /\ queue' = <<>>
    /\ reply' = DropSenders(reply,
                    {pending[i] : i \in Ids} \cup {queue[k].c : k \in 1..Len(queue)})
    /\ cur' = NoReq
    /\ line_buf' = <<>>
    /\ stdoutPipe' = <<>>
    /\ linesLeft' = 0

\* child.kill().await
Kill == child' = IF child = "alive" THEN "killed" ELSE child

\* select branch: the shutdown receiver resolves, with the value sent or
\* because its sender was dropped.
LoopShutdown ==
    /\ loop = "select"
    /\ signal \/ (Dropped /\ shutdown_tx = "some")
    /\ Kill
    /\ ExitLoop("shutdown")
    /\ UNCHANGED <<regVars, callVars, shutVars, stdinPipe>>
    /\ UNCHANGED <<lookupVars, unregVars, poolVars, accessVars, queryVars>>

\* The pending map and the reply channels after a failed write of request
\* id: a variant that fails every pending request.
AfterWriteErr_FailAll(p, r, id) ==
    [pending |-> NoPending,
     reply |-> [c \in Callers |->
                    IF (\E i \in Ids : p[i] = c) /\ r[c].kind = "open"
                    THEN Msg("write_err", 0) ELSE r[c]]]

\* The pending map and the reply channels after a failed write of request
\* id: its entry is removed and its caller is sent the error.
AfterWriteErr(p, r, id) ==
    [pending |-> [p EXCEPT ![id] = 0],
     reply |-> SendReply(r, Lookup(p, id), Msg("write_err", 0))]

\* select branch: rx.recv() yields a request.  It is recorded under its id
\* and its line is written: at once when the pipe has room, with an error
\* when the child is gone, and otherwise the task waits in write_all.
LoopRecv ==
    /\ loop = "select"
    /\ queue # <<>>
    /\ LET req == Head(queue)
           p1 == [pending EXCEPT ![req.id] = req.c]
           r1 == IF pending[req.id] \notin {0, req.c}
                 THEN DropSenders(reply, {pending[req.id]})
                 ELSE reply
       IN  IF child # "alive"
           THEN /\ pending' = AfterWriteErr(p1, r1, req.id).pending
                /\ reply' = AfterWriteErr(p1, r1, req.id).reply
                /\ UNCHANGED <<loop, cur, stdinPipe>>
           ELSE IF stdinPipe < StdinCap
           THEN /\ pending' = p1
                /\ reply' = r1
                /\ stdinPipe' = stdinPipe + 1
                /\ UNCHANGED <<loop, cur>>
           ELSE /\ pending' = p1
                /\ reply' = r1
                /\ loop' = "writing"
                /\ cur' = req
                /\ UNCHANGED stdinPipe
    /\ queue' = Tail(queue)
    /\ line_buf' = Cancelled(line_buf)
    /\ UNCHANGED <<regVars, callVars, shutVars, child, stdoutPipe, linesLeft,
                   exitCause>>
    /\ UNCHANGED <<lookupVars, unregVars, poolVars, accessVars, queryVars>>

\* stdin.write_all(..).await completes once the pipe takes the line.
LoopWriteOk ==
    /\ loop = "writing"
    /\ child = "alive"
    /\ stdinPipe < StdinCap
    /\ stdinPipe' = stdinPipe + 1
    /\ loop' = "select"
    /\ cur' = NoReq
    /\ UNCHANGED <<regVars, callVars, shutVars, child, stdoutPipe, linesLeft,
                   exitCause, pending, line_buf, queue, reply>>
    /\ UNCHANGED <<lookupVars, unregVars, poolVars, accessVars, queryVars>>

\* stdin.write_all(..).await fails: the child is gone.
LoopWriteErr ==
    /\ loop = "writing"
    /\ child # "alive"
    /\ pending' = AfterWriteErr(pending, reply, cur.id).pending
    /\ reply' = AfterWriteErr(pending, reply, cur.id).reply
    /\ loop' = "select"
    /\ cur' = NoReq
    /\ UNCHANGED <<regVars, callVars, shutVars, childVars, exitCause, line_buf, queue>>
    /\ UNCHANGED <<lookupVars, unregVars, poolVars, accessVars, queryVars>>

\* select branch: rx.recv() yields None, every sender is gone.
LoopRecvNone ==
    /\ loop = "select"
    /\ queue = <<>>
    /\ Dropped
    /\ Kill
    /\ ExitLoop("closed")
    /\ UNCHANGED <<regVars, callVars, shutVars, stdinPipe>>
    /\ UNCHANGED <<lookupVars, unregVars, poolVars, accessVars, queryVars>>

\* line_buf.clear()
Cleared(buf) == <<>>

\* select branch: read_line appends a line of valid UTF-8 to the buffer.  A
\* buffer that parses resolves the caller stored under its id, if there is
\* one; the buffer is cleared either way.
LoopReadLine ==
    /\ loop = "select"
    /\ stdoutPipe # <<>>
    /\ Head(stdoutPipe).kind # "nonutf8"
    /\ LET buf == Joined(line_buf \o <<Head(stdoutPipe)>>)
           c == IF ParsesAsEnvelope(buf) THEN Lookup(pending, buf[1].id) ELSE 0
       IN  /\ pending' = [i \in Ids |-> IF pending[i] = c THEN 0 ELSE pending[i]]
           /\ reply' = SendReply(reply, c, IF c = 0 THEN Msg("none", 0) ELSE buf[1])
           /\ line_buf' = Cleared(buf)
    /\ stdoutPipe' = Tail(stdoutPipe)
    /\ UNCHANGED <<regVars, callVars, shutVars, child, stdinPipe, linesLeft,
                   loop, exitCause, cur, queue>>
    /\ UNCHANGED <<lookupVars, unregVars, poolVars, accessVars, queryVars>>

\* read_line is polled while only the front of a line has arrived: it takes
\* those bytes and stays pending, the select does not complete.
LoopReadPart ==
    /\ loop = "select"
    /\ stdoutPipe # <<>>
    /\ Head(stdoutPipe) \in Envelopes
    /\ line_buf = <<>>
    /\ line_buf' = <<FrontOf(Head(stdoutPipe))>>
    /\ stdoutPipe' = <<RestOf(Head(stdoutPipe))>> \o Tail(stdoutPipe)
    /\ UNCHANGED <<regVars, callVars, shutVars, child, stdinPipe, linesLeft,
                   loop, exitCause, pending, cur, queue, reply>>
    /\ UNCHANGED <<lookupVars, unregVars, poolVars, accessVars, queryVars>>

\* select branch: read_line yields Ok(0), the child closed its stdout.
LoopReadEof ==
    /\ loop = "select"
    /\ stdoutPipe = <<>>
    /\ child = "exited"
    /\ ExitLoop("eof")
    /\ UNCHANGED <<regVars, callVars, shutVars, child, stdinPipe>>
    /\ UNCHANGED <<lookupVars, unregVars, poolVars, accessVars, queryVars>>

\* select branch: read_line yields Err, the bytes read are not valid UTF-8.
LoopReadErr ==
    /\ loop = "select"
    /\ stdoutPipe # <<>>
    /\ Head(stdoutPipe).kind = "nonutf8"
    /\ ExitLoop("readerr")
    /\ UNCHANGED <<regVars, callVars, shutVars, child, stdinPipe>>
    /\ UNCHANGED <<lookupVars, unregVars, poolVars, accessVars, queryVars>>

\* ---------------------------------------------------------------- the child
\* The child takes a request line from its stdin.
ChildRead ==
    /\ child = "alive"
    /\ loop # "exited"
    /\ stdinPipe > 0
    /\ stdinPipe' = stdinPipe - 1
    /\ UNCHANGED <<regVars, callVars, shutVars, taskVars, queue, reply,
                   child, stdoutPipe, linesLeft>>
    /\ UNCHANGED <<lookupVars, unregVars, poolVars, accessVars, queryVars>>

\* The child writes a line to its stdout.
ChildWrite(l) ==
    /\ child = "alive"
    /\ loop # "exited"
    /\ linesLeft > 0
    /\ Len(stdoutPipe) < StdoutCap
    /\ stdoutPipe' = Append(stdoutPipe, l)
    /\ linesLeft' = linesLeft - 1
    /\ UNCHANGED <<regVars, callVars, shutVars, taskVars, queue, reply, child, stdinPipe>>
    /\ UNCHANGED <<lookupVars, unregVars, poolVars, accessVars, queryVars>>

\* The child exits by itself; what it wrote stays readable.
ChildExit ==
    /\ child = "alive"
    /\ child' = "exited"
    /\ stdinPipe' = 0
    /\ UNCHANGED <<regVars, callVars, shutVars, taskVars, queue, reply,
                   stdoutPipe, linesLeft>>
    /\ UNCHANGED <<lookupVars, unregVars, poolVars, accessVars, queryVars>>

\* --------------------------------------------------------------------- Next
Manifests == {"missing", "unreadable", "unparsable", "ok"}

Next ==
    \/ \E m \in Manifests, e \in BOOLEAN, s \in BOOLEAN : LoadPluginFromDir(m, e, s)
    \/ RegisterOther
    \/ \E c \in Callers : CallAlloc(c)
    \/ \E c \in Callers : CallSend(c)
    \/ \E t \in Shutters : ShutdownLock(t)
    \/ \E t \in Shutters : ShutdownTake(t)
    \/ LoopShutdown
    \/ LoopRecv
    \/ LoopWriteOk
    \/ LoopWriteErr
    \/ LoopRecvNone
    \/ LoopReadLine
    \/ LoopReadEof
    \/ LoopReadErr
    \/ ChildRead
    \/ \E l \in Lines : ChildWrite(l)
    \/ ChildExit

Spec == Init /\ [][Next]_vars

\* A step of the management task: one turn of its select, or the end of a
\* blocked write.
TaskStep ==
    \/ LoopShutdown
    \/ LoopRecv
    \/ LoopWriteOk
    \/ LoopWriteErr
    \/ LoopRecvNone
    \/ LoopReadLine
    \/ LoopReadEof
    \/ LoopReadErr

\* The management task, the callers and the callers of shutdown() are
\* scheduled tasks: when one of them can take a step, a step is taken.
\* Nothing is assumed of the child, of whether anybody calls call() or
\* shutdown(), or of the loader.
Fairness ==
    /\ WF_vars(TaskStep)
    /\ WF_vars(\E c \in Callers : CallSend(c))
    /\ WF_vars(\E t \in Shutters : ShutdownTake(t))

FairSpec == Init /\ [][Next]_vars /\ Fairness

\* The plugin process where the bytes of a reply line may arrive in two
\* parts, and nobody calls shutdown().
PartialNext ==
    \/ \E m \in Manifests, e \in BOOLEAN, s \in BOOLEAN : LoadPluginFromDir(m, e, s)
    \/ \E c \in Callers : CallAlloc(c)
    \/ \E c \in Callers : CallSend(c)
    \/ LoopRecv
    \/ LoopWriteOk
    \/ LoopWriteErr
    \/ LoopReadPart
    \/ LoopReadLine
    \/ LoopReadEof
    \/ LoopReadErr
    \/ ChildRead
    \/ \E l \in Lines : ChildWrite(l)
    \/ ChildExit

PartialSpec == Init /\ [][PartialNext]_vars

\* ------------------------------------------------------ drivers/registry.rs
\* The number of driver instances built so far.
RECURSIVE SumOver(_, _)
SumOver(f, S) ==
    IF S = {} THEN 0
    ELSE LET x == CHOOSE y \in S : TRUE IN f[x] + SumOver(f, S \ {x})

\* register_driver(driver) with a driver built for the purpose, the next
\* instance of manifest id i: the entry under its id is inserted or replaced.
RegisterDriver(i) ==
    /\ SumOver(instCount, DriverIds) < NInstances
    /\ LET d == Instance(i, instCount[i] + 1)
       IN  registry' = Inserted(registry, ManifestId(d), d)
    /\ instCount' = [instCount EXCEPT ![i] = @ + 1]
    /\ UNCHANGED <<pluginVars, unregGot, shutdownCalls, lookupVars, poolVars, accessVars, queryVars>>

\* unregister_driver(i), first half: reg.remove(id) under the write lock.
\* Without a driver it returns false.  Callers are interchangeable and
\* numbered in the order in which they start.
UnregisterRemove(t, i) ==
    /\ shutPc[t] = "idle"
    /\ \A u \in Shutters : u < t => shutPc[u] # "idle"
    /\ unregGot' = [unregGot EXCEPT ![t] = [id |-> i, d |-> registry[i]]]
    /\ registry' = Removed(registry, i)
    /\ shutPc' = [shutPc EXCEPT ![t] = IF registry[i] = NoDriver THEN "done" ELSE "removed"]
    /\ UNCHANGED <<loadResult, callVars, childVars, taskVars, queue, reply,
                   shutdown_tx, signal, sends, mutex,
                   instCount, shutdownCalls, lookupVars, poolVars, accessVars, queryVars>>

\* unregister_driver, second half: d.shutdown().await on the driver removed.
\* The plugin driver's shutdown() goes on to lock its shutdown_tx; any other
\* driver's is the default and returns, and unregister_driver returns true.
UnregisterShutdown(t) ==
    /\ shutPc[t] = "removed"
    /\ shutdownCalls' = [shutdownCalls EXCEPT ![unregGot[t].d] = @ + 1]
    /\ IF unregGot[t].d = ThisDriver
       THEN /\ mutex = 0
            /\ mutex' = t
            /\ shutPc' = [shutPc EXCEPT ![t] = "locked"]
       ELSE /\ shutPc' = [shutPc EXCEPT ![t] = "done"]
            /\ UNCHANGED mutex
    /\ UNCHANGED <<regVars, callVars, childVars, taskVars, queue, reply,
                   shutdown_tx, signal, sends,
                   instCount, unregGot, lookupVars, poolVars, accessVars, queryVars>>

\* unregister_driver has returned, and what it returned.
UnregisterReturned(t) == shutPc[t] = "done"
UnregisterResult(t) == unregGot[t].d # NoDriver

\* get_driver(i): a clone of the entry, under the read lock.
GetDriver(i) ==
    /\ lookup' = Got(i, registry[i])
    /\ UNCHANGED <<regVars, pluginVars, unregVars, poolVars, accessVars, queryVars>>

\* list_drivers(): the manifests of the map's values, in the order in which
\* the map yields them, then sorted by id.
ListDrivers ==
    /\ \E o \in ValueOrders(registry) :
        lookup' = Listed(SortById([k \in DOMAIN o |-> Manifest(registry[o[k]])]))
    /\ UNCHANGED <<regVars, pluginVars, unregVars, poolVars, accessVars, queryVars>>

RegistryNext ==
    \/ \E i \in DriverIds : RegisterDriver(i)
    \/ \E t \in Shutters, i \in DriverIds : UnregisterRemove(t, i)
    \/ \E t \in Shutters : UnregisterShutdown(t)
    \/ \E i \in DriverIds : GetDriver(i)
    \/ ListDrivers

RegistrySpec == Init /\ [][RegistryNext]_vars

\* ------------------------------------- unregister_driver and the plugin process
\* The plugin driver is loaded and called, and shut down the way the program
\* does it: by unregister_driver.
UnregisterNext ==
    \/ \E m \in Manifests, e \in BOOLEAN, s \in BOOLEAN : LoadPluginFromDir(m, e, s)
    \/ \E c \in Callers : CallAlloc(c)
    \/ \E c \in Callers : CallSend(c)
    \/ \E t \in Shutters : UnregisterRemove(t, PluginId)
    \/ \E t \in Shutters : UnregisterShutdown(t)
    \/ \E t \in Shutters : ShutdownTake(t)
    \/ \E i \in DriverIds : GetDriver(i)
    \/ LoopShutdown
    \/ LoopRecv
    \/ LoopWriteOk
    \/ LoopWriteErr
    \/ LoopRecvNone
    \/ LoopReadLine
    \/ LoopReadEof
    \/ LoopReadErr
    \/ ChildRead
    \/ \E l \in Lines : ChildWrite(l)
    \/ ChildExit

\* The tasks that run unregister_driver are scheduled like the others.
UnregisterFairness ==
    /\ Fairness
    /\ WF_vars(\E t \in Shutters : UnregisterShutdown(t))

UnregisterFairSpec == Init /\ [][UnregisterNext]_vars /\ UnregisterFairness

\* ------------------------------------------------------------ pool_manager.rs
\* The connection parameters the callers of the pool manager pass.
PoolDrivers == {MYSQL, POSTGRES, DUCKDB}    \* sqlite: the same code, its table stays empty
PoolHosts == {{}}
PoolPorts == {{12}}
PoolDatabases == {<<"d">>}
PoolConnIds == {{}, {<<"a">>}}
PoolParams ==
    [driver : PoolDrivers, host : PoolHosts, port : PoolPorts, database : PoolDatabases]

\* match params.driver.as_str(): the table close_pool_with_id works on.
\* The calls made: connection ids are used with the mysql connections.
PoolCalls == {c \in PoolParams \X PoolConnIds : c[1].driver = MYSQL \/ c[2] = {}}

TableOf(driver) ==
    CASE driver = MYSQL -> "mysql"
      [] driver = POSTGRES -> "postgres"
      [] driver = SQLITE -> "sqlite"
      [] OTHER -> "none"

\* The pools created so far for key k of engine e, and the next one.
PoolsOf(e, k) == {p \in createdPools : p.engine = e /\ p.key = k}
NewPool(e, k) == [engine |-> e, key |-> k, n |-> Cardinality(PoolsOf(e, k)) + 1]

\* get_*_pool_with_id of engine e, up to the fast path: the key is built and
\* looked up under the read lock; a pool found is returned.
GetPoolStart(g, e, params, connection_id) ==
    /\ getPc[g] \in {"idle", "done"}
    /\ params.driver = DriverName[e]
    /\ LET key == BuildConnectionKey(params, connection_id)
       IN  IF key \in DOMAIN pools[e]
           THEN /\ getRes' = [getRes EXCEPT ![g] = pools[e][key]]
                /\ getArgs' = [getArgs EXCEPT ![g] = NoKey]
                /\ getPc' = [getPc EXCEPT ![g] = "done"]
           ELSE /\ getRes' = [getRes EXCEPT ![g] = NoPool]
                /\ getArgs' = [getArgs EXCEPT ![g] = [engine |-> e, key |-> key]]
                /\ getPc' = [getPc EXCEPT ![g] = "connect"]
    /\ overtaken' = Recorded(overtaken \ {g})
    /\ UNCHANGED <<pools, createdPools, closedPools, lastClose>>
    /\ UNCHANGED <<regVars, pluginVars, unregVars, lookupVars, queryVars, accessVars>>

\* ..PoolOptions::new().connect(&url).await: a new pool, or the error that
\* get_*_pool_with_id returns.
GetPoolConnect(g, ok) ==
    /\ getPc[g] = "connect"
    /\ IF ok
       THEN /\ Cardinality(createdPools) < MaxPools
            /\ createdPools' = createdPools \cup {NewPool(getArgs[g].engine, getArgs[g].key)}
            /\ getRes' = [getRes EXCEPT ![g] = NewPool(getArgs[g].engine, getArgs[g].key)]
            /\ getPc' = [getPc EXCEPT ![g] = "store"]
       ELSE /\ getPc' = [getPc EXCEPT ![g] = "done"]
            /\ UNCHANGED <<createdPools, getRes>>
    /\ getArgs' = [getArgs EXCEPT ![g] = NoKey]
    /\ overtaken' = Recorded(IF ok THEN overtaken ELSE overtaken \ {g})
    /\ UNCHANGED <<pools, closedPools, lastClose>>
    /\ UNCHANGED <<regVars, pluginVars, unregVars, lookupVars, queryVars, accessVars>>

\* pools.insert(key, pool.clone()) under the write lock, and Ok(pool).
GetPoolStore(g) ==
    /\ getPc[g] = "store"
    /\ pools' = [pools EXCEPT ![getRes[g].engine] = MapInsert(@, getRes[g].key, getRes[g])]
    /\ getPc' = [getPc EXCEPT ![g] = "done"]
    /\ overtaken' = Recorded(overtaken \ {g})
    /\ UNCHANGED <<createdPools, closedPools, getArgs, getRes, lastClose>>
    /\ UNCHANGED <<regVars, pluginVars, unregVars, lookupVars, queryVars, accessVars>>

\* get_*_pool_with_id has returned Ok(pool).
ReturnedOk(g) == getPc[g] = "done" /\ getRes[g] # NoPool

\* The get_*_pool callers that are between their lookup and their insert
\* for key k of engine e.
Creating(e, k) ==
    {g \in Getters :
        \/ getPc[g] = "connect" /\ getArgs[g] = [engine |-> e, key |-> k]
        \/ getPc[g] = "store" /\ getRes[g].engine = e /\ getRes[g].key = k}

\* close_pool_with_id(params, connection_id): under the write lock of the
\* table of params.driver the pool of the key is removed and closed.
ClosePoolWithId(params, connection_id) ==
    /\ LET key == BuildConnectionKey(params, connection_id)
           e == TableOf(params.driver)
       IN  /\ IF e \in Engines /\ key \in DOMAIN pools[e]
              THEN /\ pools' = [pools EXCEPT ![e] = MapRemove(@, key)]
                   /\ closedPools' = closedPools \cup {pools[e][key]}
                   /\ lastClose' = "closed"
              ELSE /\ lastClose' = IF e \in Engines THEN "no_pool" ELSE "no_table"
                   /\ UNCHANGED <<pools, closedPools>>
           /\ overtaken' = Recorded(overtaken \cup Creating(e, key))
    /\ UNCHANGED <<createdPools, getPc, getArgs, getRes>>
    /\ UNCHANGED <<regVars, pluginVars, unregVars, lookupVars, queryVars, accessVars>>

PoolNext ==
    \/ \E g \in Getters, e \in Engines, c \in PoolCalls : GetPoolStart(g, e, c[1], c[2])
    \/ \E g \in Getters, ok \in BOOLEAN : GetPoolConnect(g, ok)
    \/ \E g \in Getters : GetPoolStore(g)
    \/ \E c \in PoolCalls : ClosePoolWithId(c[1], c[2])

PoolSpec == Init /\ [][PoolNext]_vars

\* close_all_pools(): each table in turn is drained under its write lock
\* and every pool taken out of it is closed.
Drained(m) == {m[k] : k \in DOMAIN m}
CloseAllPools ==
    /\ pools' = [e \in Engines |-> EmptyMap]
    /\ closedPools' = closedPools \cup UNION {Drained(pools[e]) : e \in Engines}
    /\ lastClose' = "all"
    /\ UNCHANGED <<createdPools, getPc, getArgs, getRes, overtaken>>
    /\ UNCHANGED <<regVars, pluginVars, unregVars, lookupVars, queryVars, accessVars>>

CloseInit ==
    /\ PluginInit
    /\ AccessIdle
    /\ RegistryInit
    /\ PoolTablesInit
    /\ overtaken = {}
    /\ KeyIdle
    /\ QueryIdle
    /\ FnIdle

CloseNext ==
    \/ \E g \in Getters, e \in Engines, c \in PoolCalls : GetPoolStart(g, e, c[1], c[2])
    \/ \E g \in Getters, ok \in BOOLEAN : GetPoolConnect(g, ok)
    \/ \E g \in Getters : GetPoolStore(g)
    \/ \E c \in PoolCalls : ClosePoolWithId(c[1], c[2])
    \/ CloseAllPools

CloseSpec == CloseInit /\ [][CloseNext]_vars

\* ------------------------------------------- pool_manager.rs, the pool key
\* The arguments of build_connection_key: hosts and ports as a tunnel
\* changes them, saved connections with a stable id and ad-hoc ones without.
KeyDrivers == {MYSQL, POSTGRES}
KeyHosts == {{}, {<<"h">>}}
KeyPorts == {{}, {0}, {12}}
KeyDatabases == {<<"d">>, <<"e">>}
KeyConnIds == {{}, {<<"a">>}, {<<"b">>}}
KeyCalls ==
    [params : [driver : KeyDrivers, host : KeyHosts, port : KeyPorts,
               database : KeyDatabases],
     connection_id : KeyConnIds]

KeyInit ==
    /\ PluginInit
    /\ AccessIdle
    /\ RegistryInit
    /\ PoolInit
    /\ QueryIdle
    /\ FnIdle
    /\ keyArgs \in KeyCalls \X KeyCalls
    /\ keyOut = <<>>

\* The two calls are made.
BuildKeys ==
    /\ keyOut = <<>>
    /\ keyOut' = <<BuildConnectionKey(keyArgs[1].params, keyArgs[1].connection_id),
                   BuildConnectionKey(keyArgs[2].params, keyArgs[2].connection_id)>>
    /\ UNCHANGED <<regVars, pluginVars, unregVars, lookupVars, poolVars, accessVars,
                   keyArgs, lastQuery, lastResult, fnVars>>

KeyNext == BuildKeys

KeySpec == KeyInit /\ [][KeyNext]_vars

\* Arguments of build_connection_key for the two forms of the key: an
\* ad-hoc connection to a host named "conn", and stable ids as the caller
\* passes them, one of them with colons in it.
KeyFormHosts == {{}, {<<"h">>}, {ConnTag}}
KeyFormPorts == {{}, {0}}
KeyFormConnIds == {{}, {<<"a">>}, {<<"0", ":", "d">>}}
KeyFormCalls ==
    [params : [driver : KeyDrivers, host : KeyFormHosts, port : KeyFormPorts,
               database : {<<"d">>}],
     connection_id : KeyFormConnIds]

KeyFormInit ==
    /\ PluginInit
    /\ AccessIdle
    /\ RegistryInit
    /\ PoolInit
    /\ QueryIdle
    /\ FnIdle
    /\ keyArgs \in KeyFormCalls \X KeyFormCalls
    /\ keyOut = <<>>

KeyFormSpec == KeyFormInit /\ [][KeyNext]_vars

\* ------------------------------------------- web_server/access.rs, router.rs
HEARTBEAT_TIMEOUT_SECS == 90
MONITOR_INTERVAL_SECS == 30

\* A request path is its segments: "/api/heartbeat" is <<"api", "heartbeat">>.
ApiInvoke == <<"api", "invoke">>
ApiHeartbeat == <<"api", "heartbeat">>
ApiDisconnect == <<"api", "disconnect">>
ApiSessionStatus == <<"api", "session-status">>
StaticFile == <<"index.html">>
Paths == {ApiInvoke, ApiHeartbeat, ApiDisconnect, ApiSessionStatus, StaticFile}

\* The token of the one session the host has approved, and a token no
\* session was ever made for; a request carries one of them or none.
SessionTokens == {"t1"}
BearerTokens == {{}, {"t1"}, {"tx"}}
Requests == [path : Paths, token : BearerTokens]

\* path.starts_with("/api/")
UnderApi(path) == Len(path) >= 2 /\ path[1] = "api"

IsPublicPath(path) ==
    \/ ~UnderApi(path)
    \/ path = <<"api", "request-access">>
    \/ (Len(path) >= 3 /\ path[1] = "api" /\ path[2] = "request-status")
    \/ path = ApiSessionStatus

IsValidToken(access, token) ==
    token \in DOMAIN access /\ ~access[token].revoked

\* The auth layer of build_router: a public path goes on to its handler, any
\* other path only with the token of a session that is not revoked.
AuthLayer(c, req) ==
    /\ inflight[c] = NoRequest
    /\ IF \/ IsPublicPath(req.path)
          \/ (IsSome(req.token) /\ IsValidToken(sessions, Unwrap(req.token)))
       THEN /\ inflight' = [inflight EXCEPT ![c] = req]
            /\ UNCHANGED lastResponse
       ELSE /\ lastResponse' = Response(c, req, "401")
            /\ UNCHANGED inflight
    /\ UNCHANGED <<sessions, now>>
    /\ UNCHANGED <<regVars, pluginVars, unregVars, lookupVars, poolVars, queryVars>>

\* What a handler leaves behind: its response, and the client free again.
Answered(c, st) ==
    /\ lastResponse' = Response(c, inflight[c], st)
    /\ inflight' = [inflight EXCEPT ![c] = NoRequest]
    /\ UNCHANGED now
    /\ UNCHANGED <<regVars, pluginVars, unregVars, lookupVars, poolVars, queryVars>>

Refreshed_Always(session) == SessionInfo(now, session.revoked)

\* heartbeat_handler on a session it found.
Refreshed(session) ==
    IF ~session.revoked THEN SessionInfo(now, session.revoked) ELSE session

HeartbeatHandler(c) ==
    /\ inflight[c].path = ApiHeartbeat
    /\ LET token == inflight[c].token
       IN  sessions' = IF IsSome(token) /\ Unwrap(token) \in DOMAIN sessions
                       THEN [sessions EXCEPT ![Unwrap(token)] = Refreshed(@)]
                       ELSE sessions
    /\ Answered(c, "200")

DisconnectHandler(c) ==
    /\ inflight[c].path = ApiDisconnect
    /\ LET token == inflight[c].token
       IN  IF ~IsSome(token)
           THEN UNCHANGED sessions /\ Answered(c, "401")
           ELSE IF Unwrap(token) \in DOMAIN sessions
                THEN /\ sessions' = [sessions EXCEPT ![Unwrap(token)].revoked = TRUE]
                     /\ Answered(c, "200")
                ELSE UNCHANGED sessions /\ Answered(c, "404")

SessionStatusHandler(c) ==
    /\ inflight[c].path = ApiSessionStatus
    /\ LET token == inflight[c].token
       IN  Answered(c, IF ~IsSome(token) THEN "unknown"
                       ELSE IF Unwrap(token) \notin DOMAIN sessions THEN "unknown"
                       ELSE IF sessions[Unwrap(token)].revoked THEN "revoked"
                       ELSE "active")
    /\ UNCHANGED sessions

\* The handlers that do not touch the sessions.
OtherHandler(c) ==
    /\ inflight[c].path \in {ApiInvoke, StaticFile}
    /\ Answered(c, "handled")
    /\ UNCHANGED sessions

\* One turn of the loop of start_heartbeat_monitor.
HeartbeatMonitor ==
    /\ sessions' = [t \in DOMAIN sessions |->
                      IF /\ ~sessions[t].revoked
                         /\ now - sessions[t].last_heartbeat > HEARTBEAT_TIMEOUT_SECS
                      THEN SessionInfo(sessions[t].last_heartbeat, TRUE)
                      ELSE sessions[t]]
    /\ UNCHANGED <<now, inflight, lastResponse>>
    /\ UNCHANGED <<regVars, pluginVars, unregVars, lookupVars, poolVars, queryVars>>

\* Time passes: the interval of the monitor, or a second more.
ClockSteps == {MONITOR_INTERVAL_SECS, MONITOR_INTERVAL_SECS + 1}
ClockAdvance(d) ==
    /\ now + d <= MaxNow
    /\ now' = now + d
    /\ UNCHANGED <<sessions, inflight, lastResponse>>
    /\ UNCHANGED <<regVars, pluginVars, unregVars, lookupVars, poolVars, queryVars>>

\* The host has approved one client: its session is active, its heartbeat
\* is the time of the approval.
AccessInit ==
    /\ PluginInit
    /\ RegistryInit
    /\ PoolInit
    /\ KeyIdle
    /\ QueryIdle
    /\ FnIdle
    /\ sessions = [t \in SessionTokens |-> SessionInfo(0, FALSE)]
    /\ now = 0
    /\ inflight = [c \in Clients |-> NoRequest]
    /\ lastResponse = NoResponse

AccessNext ==
    \/ \E c \in Clients, req \in Requests : AuthLayer(c, req)
    \/ \E c \in Clients : HeartbeatHandler(c)
    \/ \E c \in Clients : DisconnectHandler(c)
    \/ \E c \in Clients : SessionStatusHandler(c)
    \/ \E c \in Clients : OtherHandler(c)
    \/ HeartbeatMonitor
    \/ \E d \in ClockSteps : ClockAdvance(d)

AccessSpec == AccessInit /\ [][AccessNext]_vars

\* --------------------------------------------------------------- u32 values
\* A u32 is its four bytes, the least significant first: the products of the
\* pagination arithmetic do not fit the integers of the model checker.
ByteBase == 256
U32Bytes == 4

RECURSIVE BytesOf(_, _)
BytesOf(n, len) ==
    IF len = 0 THEN <<>> ELSE <<n % ByteBase>> \o BytesOf(n \div ByteBase, len - 1)

U32(n) == BytesOf(n, U32Bytes)
U32_MAX == [k \in 1..U32Bytes |-> ByteBase - 1]
IsZero(a) == \A k \in DOMAIN a : a[k] = 0

\* The number a sequence of bytes stands for, where the model checker can
\* hold it.
RECURSIVE NatOf(_)
NatOf(a) == IF a = <<>> THEN 0 ELSE a[1] + ByteBase * NatOf(Tail(a))
Holds(a) == \A k \in DOMAIN a : k >= U32Bytes => a[k] < (IF k = U32Bytes THEN 128 ELSE 1)

\* a - b on equally long byte sequences, modulo their width, and the borrow
\* that is left.
RECURSIVE SubBytes(_, _, _)
SubBytes(a, b, borrow) ==
    IF a = <<>> THEN [bytes |-> <<>>, borrow |-> borrow]
    ELSE LET t == a[1] - b[1] - borrow
             rest == SubBytes(Tail(a), Tail(b), IF t < 0 THEN 1 ELSE 0)
         IN  [bytes |-> <<t % ByteBase>> \o rest.bytes, borrow |-> rest.borrow]

\* The exact product of two u32 values, eight bytes.
Column(a, b, k) ==
    LET Term(i) == IF k + 1 - i \in 1..U32Bytes THEN a[i] * b[k + 1 - i] ELSE 0
    IN  Term(1) + Term(2) + Term(3) + Term(4)
RECURSIVE Carried(_, _, _, _)
Carried(a, b, k, carry) ==
    IF k > 2 * U32Bytes THEN <<>>
    ELSE LET t == Column(a, b, k) + carry
         IN  <<t % ByteBase>> \o Carried(a, b, k + 1, t \div ByteBase)
Product(a, b) == Carried(a, b, 1, 0)

Low(p) == SubSeq(p, 1, U32Bytes)
High(p) == SubSeq(p, U32Bytes + 1, 2 * U32Bytes)
Widen(a) == a \o [k \in 1..U32Bytes |-> 0]

\* The u32 operators - and *: a build with overflow checks (the dev profile)
\* panics on an overflow, a build without (the release profile) wraps.
Panicked == [panic |-> TRUE, value |-> <<>>]
Value(v) == [panic |-> FALSE, value |-> v]
SubU32(a, b, overflow_checks) ==
    LET d == SubBytes(a, b, 0)
    IN  IF d.borrow = 1 /\ overflow_checks THEN Panicked ELSE Value(d.bytes)
MulU32(a, b, overflow_checks) ==
    IF ~IsZero(High(Product(a, b))) /\ overflow_checks
    THEN Panicked ELSE Value(Low(Product(a, b)))

\* drivers/common.rs calculate_offset, and the same expression in the two
\* execute_query: (page - 1) * page_size
CalculateOffset(page, page_size, overflow_checks) ==
    LET d == SubU32(page, U32(1), overflow_checks)
    IN  IF d.panic THEN Panicked ELSE MulU32(d.value, page_size, overflow_checks)

\* The calls of calculate_offset that are made: the pages and page sizes of
\* the unit test, and large ones.
OffsetPages == {U32(0), U32(1), U32(2), U32(3), U32(10), U32(65537), U32_MAX}
OffsetSizes == {U32(1), U32(25), U32(50), U32(100), U32(65536), U32_MAX}
OffsetCalls ==
    [fn : {"calculate_offset"}, page : OffsetPages, page_size : OffsetSizes,
     overflow_checks : BOOLEAN]

OffsetInit ==
    /\ PluginInit
    /\ AccessIdle
    /\ RegistryInit
    /\ PoolInit
    /\ KeyIdle
    /\ QueryIdle
    /\ fnArgs \in OffsetCalls
    /\ fnOut = <<>>

\* calculate_offset runs on the arguments.
CalculateOffsetCall ==
    /\ fnArgs.fn = "calculate_offset"
    /\ fnOut = <<>>
    /\ fnOut' = CalculateOffset(fnArgs.page, fnArgs.page_size, fnArgs.overflow_checks)
    /\ UNCHANGED <<regVars, pluginVars, unregVars, lookupVars, poolVars, accessVars,
                   keyArgs, keyOut, lastQuery, lastResult, fnArgs>>

OffsetNext == CalculateOffsetCall

OffsetSpec == OffsetInit /\ [][OffsetNext]_vars

\* ------------------------------------------------------------ execute_query
\* Statements are sequences of characters.
WhiteSpace == {" ", "\t", "\n"}

UpperOf == [a |-> "A", b |-> "B", c |-> "C", d |-> "D", e |-> "E", f |-> "F", g |-> "G",
            h |-> "H", i |-> "I", j |-> "J", k |-> "K", l |-> "L", m |-> "M", n |-> "N",
            o |-> "O", p |-> "P", q |-> "Q", r |-> "R", s |-> "S", t |-> "T", u |-> "U",
            v |-> "V", w |-> "W", x |-> "X", y |-> "Y", z |-> "Z"]

\* Characters outside ASCII are named by their code point. A character
\* takes Utf8Len bytes of a &str.
DOTLESS_I == "U+0131"           \* two bytes; its uppercase is I, one byte
N_APOSTROPHE == "U+0149"        \* two bytes; its uppercase is U+02BC N, three bytes
MODIFIER_APOSTROPHE == "U+02BC" \* two bytes
E_ACUTE == "U+00E9"             \* two bytes; its uppercase U+00C9 has two bytes
CAPITAL_E_ACUTE == "U+00C9"
TwoByteChars == {DOTLESS_I, N_APOSTROPHE, MODIFIER_APOSTROPHE, E_ACUTE, CAPITAL_E_ACUTE}
Utf8Len(c) == IF c \in TwoByteChars THEN 2 ELSE 1

\* char::to_uppercase on the characters that occur: one character, or
\* several.
UpperChar(c) == IF c \in DOMAIN UpperOf THEN UpperOf[c] ELSE c
UpperChars(c) ==
    CASE c = DOTLESS_I -> <<"I">>
      [] c = N_APOSTROPHE -> <<MODIFIER_APOSTROPHE, "N">>
      [] c = E_ACUTE -> <<CAPITAL_E_ACUTE>>
      [] OTHER -> <<UpperChar(c)>>

\* str::to_uppercase
RECURSIVE ToUppercase(_)
ToUppercase(s) == IF s = <<>> THEN <<>> ELSE UpperChars(s[1]) \o ToUppercase(Tail(s))

\* str::trim_start
RECURSIVE TrimStart(_)
TrimStart(s) ==
    IF s # <<>> /\ s[1] \in WhiteSpace THEN TrimStart(Tail(s)) ELSE s

\* str::starts_with
StartsWith(s, prefix) ==
    Len(s) >= Len(prefix) /\ SubSeq(s, 1, Len(prefix)) = prefix

KW_SELECT == <<"S", "E", "L", "E", "C", "T">>
KW_WITH == <<"W", "I", "T", "H">>
KW_SHOW == <<"S", "H", "O", "W">>
KW_DESCRIBE == <<"D", "E", "S", "C", "R", "I", "B", "E">>
KW_EXPLAIN == <<"E", "X", "P", "L", "A", "I", "N">>
KW_FROM == <<"F", "R", "O", "M">>

\* ------------------------------------------------- ORDER BY in a statement
\* Positions in a &str are byte offsets.
RECURSIVE ByteLen(_)
ByteLen(s) == IF s = <<>> THEN 0 ELSE Utf8Len(s[1]) + ByteLen(Tail(s))

\* str::trim_end and str::trim
RECURSIVE TrimEnd(_)
TrimEnd(s) ==
    IF s # <<>> /\ s[Len(s)] \in WhiteSpace THEN TrimEnd(SubSeq(s, 1, Len(s) - 1)) ELSE s
Trim(s) == TrimEnd(TrimStart(s))

\* str::rfind(pattern): the byte offset of the last match, or None.
Matches(s, pattern) ==
    {i \in 1..Len(s) : i + Len(pattern) - 1 <= Len(s)
                        /\ SubSeq(s, i, i + Len(pattern) - 1) = pattern}
Max(S) == CHOOSE x \in S : \A y \in S : y <= x
Min(S) == CHOOSE x \in S : \A y \in S : x <= y
RFind(s, pattern) ==
    IF Matches(s, pattern) = {} THEN {}
    ELSE {ByteLen(SubSeq(s, 1, Max(Matches(s, pattern)) - 1))}

\* The characters in front of byte offset pos of s, where pos is a character
\* boundary of s: slicing anywhere else panics.
CharsBefore(s, pos) == {n \in 0..Len(s) : ByteLen(SubSeq(s, 1, n)) = pos}
IsCharBoundary(s, pos) == CharsBefore(s, pos) # {}
SliceFrom(s, pos) ==
    LET n == CHOOSE n \in CharsBefore(s, pos) : TRUE IN SubSeq(s, n + 1, Len(s))
SliceTo(s, pos) ==
    LET n == CHOOSE n \in CharsBefore(s, pos) : TRUE IN SubSeq(s, 1, n)

KW_ORDER_BY == <<"O", "R", "D", "E", "R", " ", "B", "Y">>

\* extract_order_by and remove_order_by, the same text in the plugin and in
\* the MySQL driver: the offset is found in the uppercased copy and used on
\* the statement itself.
ExtractOrderBy(query) ==
    LET pos == RFind(ToUppercase(query), KW_ORDER_BY)
    IN  IF IsSome(pos)
        THEN IF IsCharBoundary(query, Unwrap(pos))
             THEN Value(Trim(SliceFrom(query, Unwrap(pos))))
             ELSE Panicked
        ELSE Value(<<>>)

RemoveOrderBy(query) ==
    LET pos == RFind(ToUppercase(query), KW_ORDER_BY)
    IN  IF IsSome(pos)
        THEN IF IsCharBoundary(query, Unwrap(pos))
             THEN Value(Trim(SliceTo(query, Unwrap(pos))))
             ELSE Panicked
        ELSE Value(query)

\* The statements extract_order_by and remove_order_by are called on: a
\* SELECT of a column or a literal from a table, whitespace, and a trailing
\* ORDER BY clause or none.
Quoted(s) == <<"'">> \o s \o <<"'">>
OrderByColumns ==
    {<<"x">>, Quoted(<<DOTLESS_I>>), Quoted(<<DOTLESS_I, DOTLESS_I>>), Quoted(<<N_APOSTROPHE>>)}
OrderByTables == {<<"t">>, <<"t", "a", "b">>, <<E_ACUTE>>}
SelectFrom(column, table) ==
    KW_SELECT \o <<" ">> \o column \o <<" ">> \o KW_FROM \o <<" ">> \o table
OrderByBodies == {SelectFrom(c, t) : c \in OrderByColumns, t \in OrderByTables}
OrderBySeps == {<<" ">>, <<"\n">>}
OrderByClauses ==
    {<<>>,
     KW_ORDER_BY \o <<" ", "x">>,
     <<"o", "r", "d", "e", "r", " ", "b", "y", " ", "x">>,
     <<"O", "R", "D", "E", "R", " ", " ", "B", "Y", " ", "x">>}
OrderByCalls ==
    [fn : {"order_by"}, body : OrderByBodies, sep : OrderBySeps, order : OrderByClauses]
QueryOf(args) == args.body \o args.sep \o args.order

OrderByInit ==
    /\ PluginInit
    /\ AccessIdle
    /\ RegistryInit
    /\ PoolInit
    /\ KeyIdle
    /\ QueryIdle
    /\ fnArgs \in OrderByCalls
    /\ fnOut = <<>>

\* extract_order_by and remove_order_by run on the statement.
OrderByCall ==
    /\ fnArgs.fn = "order_by"
    /\ fnOut = <<>>
    /\ fnOut' = [extract |-> ExtractOrderBy(QueryOf(fnArgs)),
                 remove |-> RemoveOrderBy(QueryOf(fnArgs))]
    /\ UNCHANGED <<regVars, pluginVars, unregVars, lookupVars, poolVars, accessVars,
                   keyArgs, keyOut, lastQuery, lastResult, fnArgs>>

OrderByNext == OrderByCall

OrderBySpec == OrderByInit /\ [][OrderByNext]_vars

\* ---------------------------------------------------------- rowid injection
SELECT_STAR_FROM ==
    <<"S", "E", "L", "E", "C", "T", " ", "*", " ", "F", "R", "O", "M", " ">>
ROWID == <<"r", "o", "w", "i", "d", ",", " ">>
DQuote == "\""

\* extract_table_name_after_from: the table name at the front of s, or None
\* in front of a subquery.
ExtractTableNameAfterFrom(s0) ==
    LET s == TrimStart(s0)
        closing == {i \in 2..Len(s) : s[i] = DQuote}
        stops == {i \in 1..Len(s) : s[i] \in WhiteSpace \cup {";", ")"}}
        end == IF stops = {} THEN Len(s) ELSE Min(stops) - 1
    IN  IF s # <<>> /\ s[1] = "(" THEN {}
        ELSE IF s # <<>> /\ s[1] = DQuote
        THEN IF closing = {} THEN {} ELSE {SubSeq(s, 2, Min(closing) - 1)}
        ELSE IF end = 0 THEN {} ELSE {SubSeq(s, 1, end)}

\* The match positions of the pattern in the uppercased statement, as byte
\* offsets, found from the left and one after the end of the other.
RECURSIVE Positions(_, _, _)
Positions(upper, pattern, start) ==
    LET found == {i \in Matches(upper, pattern) : i >= start}
    IN  IF found = {} THEN <<>>
        ELSE <<ByteLen(SubSeq(upper, 1, Min(found) - 1))>>
                 \o Positions(upper, pattern, Min(found) + Len(pattern))

\* get_primary_keys(conn, table_name, schema).is_empty(): PRAGMA table_info
\* of the name as it was extracted; pk_tables are the tables of the database
\* that have an explicit primary key.
PksIsEmpty(table_name, pk_tables) == table_name \notin pk_tables

\* The loop of inject_rowid_for_pk_less_tables over the positions, the last
\* first: the statement is sliced and the result is inserted into at byte
\* offsets found in the uppercased copy.
RECURSIVE InjectAt(_, _, _, _, _)
InjectAt(query, pk_tables, positions, k, result) ==
    IF k = 0 THEN Value(result)
    ELSE LET pos == positions[k]
             after == pos + ByteLen(SELECT_STAR_FROM)
             inject_pos == pos + 7
         IN  IF ~IsCharBoundary(query, after) THEN Panicked
             ELSE LET table_name == ExtractTableNameAfterFrom(SliceFrom(query, after))
                  IN  IF ~IsSome(table_name)
                      THEN InjectAt(query, pk_tables, positions, k - 1, result)
                      ELSE IF ~PksIsEmpty(Unwrap(table_name), pk_tables)
                      THEN InjectAt(query, pk_tables, positions, k - 1, result)
                      ELSE IF ~IsCharBoundary(result, inject_pos) THEN Panicked
                      ELSE InjectAt(query, pk_tables, positions, k - 1,
                                    SliceTo(result, inject_pos) \o ROWID
                                        \o SliceFrom(result, inject_pos))

InjectRowidForPkLessTables(query, pk_tables) ==
    LET positions == Positions(ToUppercase(query), SELECT_STAR_FROM, 1)
    IN  InjectAt(query, pk_tables, positions, Len(positions), query)

\* The statements inject_rowid_for_pk_less_tables is called on: a comment or
\* nothing, SELECT * FROM in capitals or not, and a table, a quoted table, a
\* table followed by more, or a subquery that selects from a table.
RowidPrefixes ==
    {<<>>,
     <<"/", "*", E_ACUTE, "*", "/", " ">>,
     <<"/", "*", DOTLESS_I, "*", "/", " ">>,
     <<"/", "*", N_APOSTROPHE, "*", "/", " ">>}
RowidKeywords ==
    {SELECT_STAR_FROM,
     <<"s", "e", "l", "e", "c", "t", " ", "*", " ", "f", "r", "o", "m", " ">>}
RowidTableNames == {<<"t">>, <<"u">>}
RowidTargets ==
    [kind : {"table"}, name : RowidTableNames, quoted : BOOLEAN,
     rest : {<<>>, <<";">>, <<" ", "w">>, <<",", " ", "v">>}]
    \cup [kind : {"subquery"}, name : RowidTableNames, quoted : {FALSE},
          rest : {<<" ", "s">>}]
RowidCalls ==
    [fn : {"inject_rowid"}, pre : RowidPrefixes, kw : RowidKeywords, target : RowidTargets,
     pk_tables : SUBSET RowidTableNames]

NameText(name, quoted) == IF quoted THEN <<DQuote>> \o name \o <<DQuote>> ELSE name
RowidQuery(args) ==
    args.pre \o args.kw \o
    (IF args.target.kind = "table"
     THEN NameText(args.target.name, args.target.quoted) \o args.target.rest
     ELSE <<"(">> \o SELECT_STAR_FROM \o args.target.name \o <<")">> \o args.target.rest)

RowidInit ==
    /\ PluginInit
    /\ AccessIdle
    /\ RegistryInit
    /\ PoolInit
    /\ KeyIdle
    /\ QueryIdle
    /\ fnArgs \in RowidCalls
    /\ fnOut = <<>>

\* inject_rowid_for_pk_less_tables runs on the statement.
InjectRowidCall ==
    /\ fnArgs.fn = "inject_rowid"
    /\ fnOut = <<>>
    /\ fnOut' = InjectRowidForPkLessTables(RowidQuery(fnArgs), fnArgs.pk_tables)
    /\ UNCHANGED <<regVars, pluginVars, unregVars, lookupVars, poolVars, accessVars,
                   keyArgs, keyOut, lastQuery, lastResult, fnArgs>>

RowidNext == InjectRowidCall

RowidSpec == RowidInit /\ [][RowidNext]_vars

\* Statements with several occurrences of SELECT * FROM <table>, joined by
\* UNION, behind a comment or nothing.
KW_UNION == <<" ", "U", "N", "I", "O", "N", " ">>
RowidOccurrences == [kw : RowidKeywords, name : RowidTableNames]
RowidManyCalls ==
    [fn : {"inject_rowid_many"}, pre : RowidPrefixes,
     occs : UNION {[1..n -> RowidOccurrences] : n \in 2..MaxOccurrences},
     pk_tables : SUBSET RowidTableNames]

RECURSIVE JoinOccurrences(_, _)
JoinOccurrences(texts, sep) ==
    IF Len(texts) = 1 THEN texts[1]
    ELSE texts[1] \o sep \o JoinOccurrences(Tail(texts), sep)

RowidManyQuery(args) ==
    args.pre \o JoinOccurrences([k \in DOMAIN args.occs |->
                                    args.occs[k].kw \o args.occs[k].name], KW_UNION)

RowidManyInit ==
    /\ PluginInit
    /\ AccessIdle
    /\ RegistryInit
    /\ PoolInit
    /\ KeyIdle
    /\ QueryIdle
    /\ fnArgs \in RowidManyCalls
    /\ fnOut = <<>>

\* inject_rowid_for_pk_less_tables runs on a statement of several occurrences.
InjectRowidManyCall ==
    /\ fnArgs.fn = "inject_rowid_many"
    /\ fnOut = <<>>
    /\ fnOut' = InjectRowidForPkLessTables(RowidManyQuery(fnArgs), fnArgs.pk_tables)
    /\ UNCHANGED <<regVars, pluginVars, unregVars, lookupVars, poolVars, accessVars,
                   keyArgs, keyOut, lastQuery, lastResult, fnArgs>>

RowidManyNext == InjectRowidManyCall

RowidManySpec == RowidManyInit /\ [][RowidManyNext]_vars

\* ---------------------------------------------------------- blob wire format
\* A blob is a sequence of bytes 0..255; the preview limit is scaled down
\* from the source's 4096.
B64Alphabet ==
    <<"A", "B", "C", "D", "E", "F", "G", "H", "I", "J", "K", "L", "M", "N", "O", "P",
      "Q", "R", "S", "T", "U", "V", "W", "X", "Y", "Z", "a", "b", "c", "d", "e", "f",
      "g", "h", "i", "j", "k", "l", "m", "n", "o", "p", "q", "r", "s", "t", "u", "v",
      "w", "x", "y", "z", "0", "1", "2", "3", "4", "5", "6", "7", "8", "9", "+", "/">>
B64Pad == "="
B64Index(c) == CHOOSE i \in 0..63 : B64Alphabet[i + 1] = c
IsB64(c) == \E i \in 1..64 : B64Alphabet[i] = c

\* base64 STANDARD encode: three bytes give four characters, the rest is
\* padded.
RECURSIVE Base64Encode_NoPad(_)
Base64Encode_NoPad(bytes) ==
    IF bytes = <<>> THEN <<>>
    ELSE IF Len(bytes) = 1
    THEN <<B64Alphabet[(bytes[1] \div 4) + 1], B64Alphabet[((bytes[1] % 4) * 16) + 1]>>
    ELSE IF Len(bytes) = 2
    THEN <<B64Alphabet[(bytes[1] \div 4) + 1],
           B64Alphabet[((bytes[1] % 4) * 16 + bytes[2] \div 16) + 1],
           B64Alphabet[((bytes[2] % 16) * 4) + 1]>>
    ELSE <<B64Alphabet[(bytes[1] \div 4) + 1],
           B64Alphabet[((bytes[1] % 4) * 16 + bytes[2] \div 16) + 1],
           B64Alphabet[((bytes[2] % 16) * 4 + bytes[3] \div 64) + 1],
           B64Alphabet[(bytes[3] % 64) + 1]>>
         \o Base64Encode_NoPad(SubSeq(bytes, 4, Len(bytes)))
RECURSIVE Base64Encode(_)
Base64Encode(bytes) ==
    IF bytes = <<>> THEN <<>>
    ELSE IF Len(bytes) = 1
    THEN <<B64Alphabet[(bytes[1] \div 4) + 1], B64Alphabet[((bytes[1] % 4) * 16) + 1],
           B64Pad, B64Pad>>
    ELSE IF Len(bytes) = 2
    THEN <<B64Alphabet[(bytes[1] \div 4) + 1],
           B64Alphabet[((bytes[1] % 4) * 16 + bytes[2] \div 16) + 1],
           B64Alphabet[((bytes[2] % 16) * 4) + 1], B64Pad>>
    ELSE <<B64Alphabet[(bytes[1] \div 4) + 1],
           B64Alphabet[((bytes[1] % 4) * 16 + bytes[2] \div 16) + 1],
           B64Alphabet[((bytes[2] % 16) * 4 + bytes[3] \div 64) + 1],
           B64Alphabet[(bytes[3] % 64) + 1]>>
         \o Base64Encode(SubSeq(bytes, 4, Len(bytes)))

\* base64 STANDARD decode: canonical padding is required, and no character
\* outside the alphabet and no set bit after the last byte is accepted.
RECURSIVE Base64Decode(_)
Base64Decode(chars) ==
    IF chars = <<>> THEN {<<>>}
    ELSE IF Len(chars) < 4 THEN {}
    ELSE LET c == SubSeq(chars, 1, 4)
             i1 == B64Index(c[1])
             i2 == B64Index(c[2])
             i3 == B64Index(c[3])
             i4 == B64Index(c[4])
             isLast == Len(chars) = 4
             rest == Base64Decode(SubSeq(chars, 5, Len(chars)))
         IN  IF ~IsB64(c[1]) \/ ~IsB64(c[2]) THEN {}
             ELSE IF isLast /\ c[3] = B64Pad /\ c[4] = B64Pad
             THEN IF i2 % 16 = 0 THEN {<<i1 * 4 + i2 \div 16>>} ELSE {}
             ELSE IF ~IsB64(c[3]) THEN {}
             ELSE IF isLast /\ c[4] = B64Pad
             THEN IF i3 % 4 = 0
                  THEN {<<i1 * 4 + i2 \div 16, (i2 % 16) * 16 + i3 \div 4>>}
                  ELSE {}
             ELSE IF ~IsB64(c[4]) \/ ~IsSome(rest) THEN {}
             ELSE {<<i1 * 4 + i2 \div 16, (i2 % 16) * 16 + i3 \div 4, (i3 % 4) * 64 + i4>>
                     \o Unwrap(rest)}

BLOB_PREFIX == <<"B", "L", "O", "B", ":">>
BLOB_FILE_REF_PREFIX == <<"B", "L", "O", "B", "_", "F", "I", "L", "E", "_", "R", "E", "F", ":">>
OCTET_STREAM ==
    <<"a", "p", "p", "l", "i", "c", "a", "t", "i", "o", "n", "/", "o", "c", "t", "e", "t", "-", "s", "t", "r", "e", "a", "m">>
IMAGE_PNG == <<"i", "m", "a", "g", "e", "/", "p", "n", "g">>
USE_DEFAULT == <<"_", "_", "U", "S", "E", "_", "D", "E", "F", "A", "U", "L", "T", "_", "_">>

\* encode_blob(data): the mime type is what infer::get finds in the preview,
\* or application/octet-stream.
EncodeBlob_Untruncated(data, mime) ==
    BLOB_PREFIX \o FormatInt(Len(data)) \o <<":">> \o mime \o <<":">> \o Base64Encode(data)
EncodeBlob(data, mime) ==
    LET total_size == Len(data)
        preview == IF total_size > MAX_BLOB_PREVIEW_SIZE
                   THEN SubSeq(data, 1, MAX_BLOB_PREVIEW_SIZE) ELSE data
    IN  BLOB_PREFIX \o FormatInt(total_size) \o <<":">> \o mime \o <<":">>
            \o Base64Encode(preview)

\* encode_blob_full(data)
EncodeBlobFull(data, mime) ==
    BLOB_PREFIX \o FormatInt(Len(data)) \o <<":">> \o mime \o <<":">> \o Base64Encode(data)

\* s.splitn(2, ':').nth(1): what follows the first colon, or None.
AfterColon(s) ==
    LET colons == {i \in 1..Len(s) : s[i] = ":"}
    IN  IF colons = {} THEN {} ELSE {SubSeq(s, Min(colons) + 1, Len(s))}

\* decode_blob_wire_format(value); file is what reading the file of a
\* BLOB_FILE_REF gives, None where it cannot be read.
DecodeBlobWireFormat_AnyPrefix(value, file) ==
    LET after_size == AfterColon(value)
        base64_data == IF IsSome(after_size) THEN AfterColon(Unwrap(after_size)) ELSE {}
    IN  IF IsSome(base64_data) THEN Base64Decode(Unwrap(base64_data)) ELSE {}
DecodeBlobWireFormat(value, file) ==
    IF StartsWith(value, BLOB_FILE_REF_PREFIX) THEN file
    ELSE IF ~StartsWith(value, BLOB_PREFIX) THEN {}
    ELSE LET rest == SubSeq(value, Len(BLOB_PREFIX) + 1, Len(value))
             after_size == AfterColon(rest)
             base64_data == IF IsSome(after_size) THEN AfterColon(Unwrap(after_size)) ELSE {}
         IN  IF IsSome(base64_data) THEN Base64Decode(Unwrap(base64_data)) ELSE {}

\* The plugin's sql_format_value on a JSON string: the DEFAULT keyword for the
\* sentinel, a hex literal for a blob, and the string as a literal otherwise.
RECURSIVE EscapeQuotes(_)
EscapeQuotes(s) ==
    IF s = <<>> THEN <<>>
    ELSE (IF s[1] = "'" THEN <<"'", "'">> ELSE <<s[1]>>) \o EscapeQuotes(Tail(s))
SqlFormatValue(s, file) ==
    IF s = USE_DEFAULT THEN [kind |-> "default", text |-> <<>>]
    ELSE IF IsSome(DecodeBlobWireFormat(s, file))
    THEN [kind |-> "hex", text |-> Unwrap(DecodeBlobWireFormat(s, file))]
    ELSE [kind |-> "literal", text |-> Quoted(EscapeQuotes(s))]

\* The blobs that are encoded and decoded again.
BlobBytes == {0, 58, 255}
Blobs == UNION {[1..n -> BlobBytes] : n \in 0..MaxBlobLen}
Mimes == {OCTET_STREAM, IMAGE_PNG}
EncodeCalls == [fn : {"encode_blob", "encode_blob_full"}, data : Blobs, mime : Mimes]

\* The strings decode_blob_wire_format and sql_format_value are called on that
\* are not in the wire format, and some that are.
PlainStrings ==
    {<<>>,
     <<"B", "L", "O", "B", "_", "N", "O", "T", "_", "V", "A", "L", "I", "D">>,
     USE_DEFAULT,
     <<"p", "l", "a", "i", "n", " ", "s", "t", "r", "i", "n", "g">>,
     <<"i", "t", "'", "s">>,
     <<"B", "L", "O", "B">>,
     <<"b", "l", "o", "b", ":", "1", ":", "a", ":", "A", "A", "=", "=">>,
     <<"a", ":", "b", ":">>,
     <<"1", "2", ":", "3", "0", ":", "A", "A", "A", "A">>}
WireStrings ==
    {<<"B", "L", "O", "B", ":", "1", ":", "a", ":", "A", "A", "=", "=">>,
     <<"B", "L", "O", "B", ":", "1", ":", "a", ":", "A">>,
     <<"B", "L", "O", "B", ":", "1", "2">>,
     <<"B", "L", "O", "B", "_", "F", "I", "L", "E", "_", "R", "E", "F", ":", "1", ":", "a", ":", "/", "f">>}
DecodeCalls ==
    [fn : {"decode_blob_wire_format"}, value : PlainStrings \cup WireStrings,
     file : {{}, {<<0>>}}]

BlobInit ==
    /\ PluginInit
    /\ AccessIdle
    /\ RegistryInit
    /\ PoolInit
    /\ KeyIdle
    /\ QueryIdle
    /\ fnArgs \in EncodeCalls \cup DecodeCalls
    /\ fnOut = <<>>

\* encode_blob or encode_blob_full runs on the bytes, and
\* decode_blob_wire_format on what it returned.
EncodeDecodeCall ==
    /\ fnArgs.fn \in {"encode_blob", "encode_blob_full"}
    /\ fnOut = <<>>
    /\ LET wire == IF fnArgs.fn = "encode_blob"
                   THEN EncodeBlob(fnArgs.data, fnArgs.mime)
                   ELSE EncodeBlobFull(fnArgs.data, fnArgs.mime)
       IN  fnOut' = [wire |-> wire, decoded |-> DecodeBlobWireFormat(wire, {})]
    /\ UNCHANGED <<regVars, pluginVars, unregVars, lookupVars, poolVars, accessVars,
                   keyArgs, keyOut, lastQuery, lastResult, fnArgs>>

\* decode_blob_wire_format and sql_format_value run on the string.
DecodeCall ==
    /\ fnArgs.fn = "decode_blob_wire_format"
    /\ fnOut = <<>>
    /\ fnOut' = [decoded |-> DecodeBlobWireFormat(fnArgs.value, fnArgs.file),
                 sql |-> SqlFormatValue(fnArgs.value, fnArgs.file)]
    /\ UNCHANGED <<regVars, pluginVars, unregVars, lookupVars, poolVars, accessVars,
                   keyArgs, keyOut, lastQuery, lastResult, fnArgs>>

BlobNext ==
    \/ EncodeDecodeCall
    \/ DecodeCall

BlobSpec == BlobInit /\ [][BlobNext]_vars

\* The first words of the statements that are executed, the whitespace in
\* front of them and what follows them.
Words ==
    {<<"s", "e", "l", "e", "c", "t">>,
     <<"S", "E", "L", "E", "C", "T">>,
     <<"S", "e", "l", "e", "c", "t">>,
     <<"w", "i", "t", "h">>,
     <<"S", "H", "O", "W">>,
     <<"d", "e", "s", "c", "r", "i", "b", "e">>,
     <<"E", "x", "p", "l", "a", "i", "n">>,
     <<"f", "r", "o", "m">>,
     <<"U", "P", "D", "A", "T", "E">>,
     <<"i", "n", "s", "e", "r", "t">>,
     <<"d", "e", "l", "e", "t", "e">>,
     <<"s", "e", "l", "e", "c">>,
     <<"(", "s", "e", "l", "e", "c", "t">>}
Spaces == UNION {[1..n -> WhiteSpace] : n \in 0..MaxSpaces}
Rests == {<<>>, <<" ", "x">>}
Queries == {sp \o w \o r : sp \in Spaces, w \in Words, r \in Rests}

\* What the database does with a statement: the rows it changes, the rows
\* it yields when the statement is run as it is, whether the COUNT(*) wrapper
\* of it runs and whether the statement, as it is or wrapped for a page, runs.
DbOutcomes ==
    [affected : 0..MaxAffected, rows : {0, 3}, count_ok : BOOLEAN, fetch_ok : BOOLEAN]
Rows(n) == [k \in 1..n |-> k]
Columns(n) == IF n = 0 THEN <<>> ELSE <<"c">>

\* The implementations of execute_query: the plugin's and the in-process
\* MySQL driver's.
Implementations == {"duckdb", "mysql"}

\* The statements of this specification run without an error.
QueryInputs ==
    [impl : Implementations, query : Queries, limit : {{}, {2}}, page : {1, 2},
     db : {d \in DbOutcomes : d.count_ok /\ d.fetch_ok}, overflow_checks : BOOLEAN]

\* The rows that LIMIT l OFFSET offset leaves of n rows; offset is a u32.
PageRows(n, l, offset) ==
    IF ~Holds(offset) \/ NatOf(offset) >= n THEN <<>>
    ELSE LET first == NatOf(offset)
             last == IF first + l < n THEN first + l ELSE n
         IN  [k \in 1..(last - first) |-> first + k]

\* What execute_query returns: Ok(result) with the fields of the result, an
\* Err, or a panic. offset, count_ran and final_query record the offset that
\* was computed, whether the COUNT(*) wrapper was run and the pieces the
\* page's statement was formatted from.
NoResult(is_select) ==
    [status |-> "ok", is_select |-> is_select, columns |-> <<>>, rows |-> <<>>,
     affected_rows |-> 0, truncated |-> FALSE, pagination |-> {},
     offset |-> {}, count_ran |-> FALSE, final_query |-> <<>>]
Failed(r, how) == [r EXCEPT !.status = how]

\* The COUNT(*) wrapper: .unwrap_or(0) in the plugin, the else branch of
\* if let Ok(row) in the MySQL driver.
TotalRows_NoDefault(db) == db.rows
TotalRows(db) == IF db.count_ok THEN db.rows ELSE 0

\* The page's statement: format!("SELECT * FROM ({}) ... LIMIT {} OFFSET {}"),
\* as the sequence of its pieces.
PaginatedQuery(query, order_by, inner, wrapper, l, offset) ==
    IF order_by # <<>>
    THEN <<"SELECT * FROM (", inner, wrapper \o " ", order_by, " LIMIT ", l, " OFFSET ", offset>>
    ELSE <<"SELECT * FROM (", query, wrapper \o " LIMIT ", l, " OFFSET ", offset>>

\* plugins/duckdb/src/main.rs execute_query
ExecuteQueryDuckdb(query, limit, page, db, overflow_checks) ==
    LET upper == ToUppercase(TrimStart(query))
        is_select == \/ StartsWith(upper, KW_SELECT)
                     \/ StartsWith(upper, KW_WITH)
                     \/ StartsWith(upper, KW_SHOW)
                     \/ StartsWith(upper, KW_DESCRIBE)
                     \/ StartsWith(upper, KW_EXPLAIN)
                     \/ StartsWith(upper, KW_FROM)
        none == NoResult(is_select)
    IN  IF ~is_select
        THEN IF db.fetch_ok THEN [none EXCEPT !.affected_rows = db.affected]
             ELSE Failed(none, "err")
        ELSE IF IsSome(limit)
        THEN LET l == Unwrap(limit)
                 p == IF page = 0 THEN 1 ELSE page
                 offset == CalculateOffset(U32(p), U32(l), overflow_checks)
                 total_rows == TotalRows(db)
                 order_by == ExtractOrderBy(query)
                 inner == RemoveOrderBy(query)
             IN  IF offset.panic THEN Failed(none, "panic")
                 ELSE IF order_by.panic \/ (order_by.value # <<>> /\ inner.panic)
                 THEN Failed([none EXCEPT !.offset = {offset.value}, !.count_ran = TRUE],
                             "panic")
                 ELSE LET ran == [none EXCEPT
                                    !.offset = {offset.value},
                                    !.count_ran = TRUE,
                                    !.final_query =
                                        PaginatedQuery(query, order_by.value, inner.value,
                                                       ") AS __page_subq__", l, offset.value)]
                      IN  IF ~db.fetch_ok THEN Failed(ran, "err")
                          ELSE [ran EXCEPT
                                  !.columns = Columns(db.rows),
                                  !.rows = PageRows(db.rows, l, offset.value),
                                  !.pagination = {[page |-> p, page_size |-> l,
                                                   total_rows |-> total_rows]}]
        ELSE IF ~db.fetch_ok THEN Failed(none, "err")
        ELSE [none EXCEPT !.columns = Columns(db.rows), !.rows = Rows(db.rows)]

\* src-tauri/src/drivers/mysql/mod.rs execute_query
ExecuteQueryMysql(query, limit, page, db, overflow_checks) ==
    LET is_select == StartsWith(ToUppercase(TrimStart(query)), KW_SELECT)
        none == NoResult(is_select)
    IN  IF is_select /\ IsSome(limit)
        THEN LET l == Unwrap(limit)
                 offset == CalculateOffset(U32(page), U32(l), overflow_checks)
                 total_rows == TotalRows(db)
                 order_by_clause == ExtractOrderBy(query)
                 query_without_order == RemoveOrderBy(query)
             IN  IF offset.panic THEN Failed(none, "panic")
                 ELSE IF \/ order_by_clause.panic
                         \/ (order_by_clause.value # <<>> /\ query_without_order.panic)
                 THEN Failed([none EXCEPT !.offset = {offset.value}, !.count_ran = TRUE],
                             "panic")
                 ELSE LET ran == [none EXCEPT
                                    !.offset = {offset.value},
                                    !.count_ran = TRUE,
                                    !.final_query =
                                        PaginatedQuery(query, order_by_clause.value,
                                                       query_without_order.value,
                                                       ") as data_wrapper", l, offset.value)]
                          rows == PageRows(db.rows, l, offset.value)
                      IN  IF ~db.fetch_ok THEN Failed(ran, "err")
                          ELSE [ran EXCEPT
                                  !.columns = Columns(Len(rows)),
                                  !.rows = rows,
                                  !.truncated = total_rows > l,
                                  !.pagination = {[page |-> page, page_size |-> l,
                                                   total_rows |-> total_rows]}]
        ELSE IF ~db.fetch_ok THEN Failed(none, "err")
        ELSE [none EXCEPT
                !.columns = Columns(db.rows),
                !.rows = IF IsSome(limit) /\ db.rows > Unwrap(limit)
                         THEN Rows(Unwrap(limit)) ELSE Rows(db.rows),
                !.truncated = IsSome(limit) /\ db.rows > Unwrap(limit)]

QueryInit ==
    /\ PluginInit
    /\ AccessIdle
    /\ RegistryInit
    /\ PoolInit
    /\ KeyIdle
    /\ FnIdle
    /\ lastQuery \in QueryInputs
    /\ lastResult = <<>>

\* execute_query runs on the statement.
ExecuteQuery ==
    /\ lastResult = <<>>
    /\ lastResult' =
        IF lastQuery.impl = "duckdb"
        THEN ExecuteQueryDuckdb(lastQuery.query, lastQuery.limit, lastQuery.page,
                                lastQuery.db, lastQuery.overflow_checks)
        ELSE ExecuteQueryMysql(lastQuery.query, lastQuery.limit, lastQuery.page,
                               lastQuery.db, lastQuery.overflow_checks)
    /\ UNCHANGED <<regVars, pluginVars, unregVars, lookupVars, poolVars, accessVars,
                   keyArgs, keyOut, lastQuery, fnVars>>

QueryNext == ExecuteQuery

QuerySpec == QueryInit /\ [][QueryNext]_vars

\* The paginated calls of execute_query: the statements of OrderByCalls, a
\* page size and the pages 0..MaxPage.
PageInputs ==
    {[impl |-> i, query |-> QueryOf(c), body |-> c.body, sep |-> c.sep, order |-> c.order,
      limit |-> {2}, page |-> p, db |-> d, overflow_checks |-> o] :
        i \in Implementations, c \in OrderByCalls, p \in 0..MaxPage,
        d \in {x \in DbOutcomes : x.affected = 0}, o \in BOOLEAN}

PageInit ==
    /\ PluginInit
    /\ AccessIdle
    /\ RegistryInit
    /\ PoolInit
    /\ KeyIdle
    /\ FnIdle
    /\ lastQuery \in PageInputs
    /\ lastResult = <<>>

PageSpec == PageInit /\ [][QueryNext]_vars

\* ------------------------------------------------------ get_alter_column_sql
\* A column description: its name, its data type, whether it is nullable, its
\* default value if it has one, and whether it is auto-incremented.
ColumnDefinitions ==
    [name : {<<"a">>, <<"b">>}, data_type : {<<"I", "N", "T">>, <<"T", "E", "X", "T">>},
     is_nullable : BOOLEAN, default_value : {{}, {<<"0">>}}, is_auto_increment : {FALSE}]

\* escape_identifier of the plugin and of the MySQL driver
RECURSIVE Doubled(_, _)
Doubled(s, q) ==
    IF s = <<>> THEN <<>>
    ELSE (IF s[1] = q THEN <<q, q>> ELSE <<s[1]>>) \o Doubled(Tail(s), q)
EscapeIdentifierDuckdb(name) == <<DQuote>> \o Doubled(name, DQuote) \o <<DQuote>>
BackTick == "U+0060"
EscapeIdentifierMysql(name) == Doubled(name, BackTick)

\* A statement: what it changes and the pieces it is formatted from.
Stmt(kind, pieces) == [kind |-> kind, pieces |-> pieces]
OkStmts(stmts) == [status |-> "ok", stmts |-> stmts]
ErrStmts(msg) == [status |-> "err", stmts |-> <<>>, msg |-> msg]

\* plugins/duckdb/src/main.rs ddl_get_alter_column_sql
DdlGetAlterColumnSql(table, old_col, new_col) ==
    LET tbl == EscapeIdentifierDuckdb(table)
        col_ref == EscapeIdentifierDuckdb(new_col.name)
        rename ==
            IF old_col.name # new_col.name
            THEN <<Stmt("name", <<"ALTER TABLE ", tbl, " RENAME COLUMN ",
                                  EscapeIdentifierDuckdb(old_col.name), " TO ",
                                  EscapeIdentifierDuckdb(new_col.name)>>)>>
            ELSE <<>>
        type ==
            IF old_col.data_type # new_col.data_type
            THEN <<Stmt("data_type", <<"ALTER TABLE ", tbl, " ALTER COLUMN ", col_ref,
                                       " TYPE ", new_col.data_type>>)>>
            ELSE <<>>
        nullable ==
            IF old_col.is_nullable # new_col.is_nullable
            THEN <<Stmt("is_nullable",
                        <<"ALTER TABLE ", tbl, " ALTER COLUMN ", col_ref,
                          IF new_col.is_nullable THEN " DROP NOT NULL" ELSE " SET NOT NULL">>)>>
            ELSE <<>>
        default ==
            IF old_col.default_value # new_col.default_value
            THEN <<Stmt("default_value",
                        IF IsSome(new_col.default_value)
                        THEN <<"ALTER TABLE ", tbl, " ALTER COLUMN ", col_ref, " SET DEFAULT ",
                               Unwrap(new_col.default_value)>>
                        ELSE <<"ALTER TABLE ", tbl, " ALTER COLUMN ", col_ref,
                               " DROP DEFAULT">>)>>
            ELSE <<>>
        stmts == rename \o type \o nullable \o default
    IN  IF stmts = <<>> THEN ErrStmts("No changes detected") ELSE OkStmts(stmts)

\* src-tauri/src/drivers/mysql/mod.rs MysqlDriver::get_alter_column_sql
MysqlGetAlterColumnSql(table, old_column, new_column) ==
    LET head ==
            IF old_column.name # new_column.name
            THEN <<"ALTER TABLE ", BackTick, EscapeIdentifierMysql(table), BackTick,
                   " CHANGE ", BackTick, EscapeIdentifierMysql(old_column.name), BackTick,
                   " ", BackTick, EscapeIdentifierMysql(new_column.name), BackTick, " ",
                   new_column.data_type>>
            ELSE <<"ALTER TABLE ", BackTick, EscapeIdentifierMysql(table), BackTick,
                   " MODIFY COLUMN ", BackTick, EscapeIdentifierMysql(new_column.name),
                   BackTick, " ", new_column.data_type>>
        null == IF ~new_column.is_nullable THEN <<" NOT NULL">> ELSE <<" NULL">>
        auto == IF new_column.is_auto_increment THEN <<" AUTO_INCREMENT">> ELSE <<>>
        default == IF IsSome(new_column.default_value)
                   THEN <<" DEFAULT ", Unwrap(new_column.default_value)>> ELSE <<>>
    IN  OkStmts(<<Stmt(IF old_column.name # new_column.name THEN "change" ELSE "modify",
                       head \o null \o auto \o default)>>)

AlterCalls ==
    [fn : {"get_alter_column_sql"}, impl : Implementations, table : {<<"t">>},
     old : ColumnDefinitions, new : ColumnDefinitions]

AlterInit ==
    /\ PluginInit
    /\ AccessIdle
    /\ RegistryInit
    /\ PoolInit
    /\ KeyIdle
    /\ QueryIdle
    /\ fnArgs \in AlterCalls
    /\ fnOut = <<>>

\* get_alter_column_sql runs on the two descriptions.
GetAlterColumnSqlCall ==
    /\ fnArgs.fn = "get_alter_column_sql"
    /\ fnOut = <<>>
    /\ fnOut' = IF fnArgs.impl = "duckdb"
                THEN DdlGetAlterColumnSql(fnArgs.table, fnArgs.old, fnArgs.new)
                ELSE MysqlGetAlterColumnSql(fnArgs.table, fnArgs.old, fnArgs.new)
    /\ UNCHANGED <<regVars, pluginVars, unregVars, lookupVars, poolVars, accessVars,
                   keyArgs, keyOut, lastQuery, lastResult, fnArgs>>

AlterNext == GetAlterColumnSqlCall

AlterSpec == AlterInit /\ [][AlterNext]_vars

\* ------------------------------------------------------------------ claims
\* The request of caller c is recorded in the pending map or queued for it.
InFlight(c) ==
    \/ \E i \in Ids : pending[i] = c
    \/ \E k \in 1..Len(queue) : queue[k].c = c

\* C1: a caller only ever receives an envelope whose id is the id of its own
\* request, Ok for a success envelope and Err for an error envelope, and an
\* envelope read while its id is pending goes to the caller stored under
\* that id, whatever the order in which the child writes.
C1_Correlation ==
    /\ [](\A c \in Callers :
            reply[c].kind \in {"ok", "err"} => reply[c].id = callerId[c])
    /\ [][\A c \in Callers :
            /\ (reply'[c] # reply[c] /\ reply'[c].kind \in {"ok", "err"}) =>
                    /\ stdoutPipe # <<>>
                    /\ reply'[c] = Head(stdoutPipe)
                    /\ Head(stdoutPipe).id = callerId[c]
                    /\ ResultOf(reply'[c]).kind = IF Head(stdoutPipe).kind = "ok"
                                                THEN "Ok" ELSE "Err: error.message"
            /\ (LoopReadLine /\ Head(stdoutPipe).kind \in {"ok", "err"}
                    /\ pending[Head(stdoutPipe).id] = c /\ reply[c].kind = "open") =>
                    reply'[c] = Head(stdoutPipe)]_vars

\* Two requests were outstanding and the later one was answered first.
C1_Witness ==
    /\ callerId[1] < callerId[2]
    /\ pending[callerId[1]] = 1
    /\ reply[1].kind = "open"
    /\ reply[2].kind = "ok"

\* The child's stdout is at end-of-stream, no shutdown was requested, and
\* the task has not ended.
EofNoShutdown ==
    /\ child = "exited"
    /\ stdoutPipe = <<>>
    /\ ~signal
    /\ loop \in {"select", "writing"}

\* C2: when the child's stdout is at end-of-stream and no shutdown was
\* requested, the task ends.  From end-of-stream on no caller is resolved
\* with a reply, and once the task has ended no request is in the pending
\* map or the queue and every caller that sent one has its result: so every
\* request outstanding at end-of-stream ends with an error at its caller.
C2_EofFailsOutstanding ==
    /\ EofNoShutdown ~> (loop = "exited")
    /\ [][(child = "exited" /\ stdoutPipe = <<>>) =>
            \A c \in Callers :
                reply'[c] # reply[c] =>
                    (reply'[c].kind = "open" \/ ResultOf(reply'[c]).kind \notin {"none", "Ok"})]_vars
    /\ [](loop = "exited" =>
            \A c \in Callers : ~InFlight(c) /\ (callerPc[c] = "sent" => Returned(c)))

\* The task ended on end-of-stream and a caller, whose request was
\* outstanding then, got its error from the dropped reply channel.
C2_Witness ==
    /\ exitCause = "eof"
    /\ ~signal
    /\ \E c \in Callers :
        reply[c].kind = "closed" /\ Result(c).kind = "Err: Plugin process did not respond"

\* C3: once shutdown() is sending its signal, the child is killed and every
\* call outstanding at that moment ends with an error at its caller.
C3_ShutdownFailsOutstanding ==
    LET Sending == \E t \in Shutters : shutPc[t] = "locked" /\ shutdown_tx = "some"
    IN  /\ (Sending /\ child = "alive") ~> (child # "alive")
        /\ \A c \in Callers : (Sending /\ InFlight(c)) ~> IsErr(c)

\* C4: the ids handed out are pairwise distinct, and the entry stored under
\* an id in the pending map or in the queue belongs to the one request
\* that was given the id.
C4_DistinctIds ==
    /\ \A a, b \in Callers :
        (a # b /\ callerId[a] # 0 /\ callerId[b] # 0) => callerId[a] # callerId[b]
    /\ \A i \in Ids : pending[i] # 0 => callerId[pending[i]] = i
    /\ \A k \in 1..Len(queue) : callerId[queue[k].c] = queue[k].id

\* Two requests issued concurrently are in the pending map together.
C4_Witness ==
    \E i, j \in Ids : i # j /\ pending[i] # 0 /\ pending[j] # 0

\* C5: a failed write removes the entry of the request being written and
\* sends its caller the transport error; the other entries and reply
\* channels are as before and the task is back in its select.
C5_WriteFailure ==
    [][(LoopWriteErr \/ (LoopRecv /\ child # "alive")) =>
        LET req == IF loop = "writing" THEN cur ELSE Head(queue) IN
            /\ pending'[req.id] = 0
            /\ reply'[req.c] = Msg("write_err", 0)
            /\ ResultOf(reply'[req.c]).kind = "Err: Plugin communication error"
            /\ \A i \in Ids \ {req.id} : pending'[i] = pending[i]
            /\ \A c \in Callers \ {req.c} : reply'[c] = reply[c]
            /\ loop' = "select"]_vars

\* A write failed for one request while another is still pending.
C5_Witness ==
    /\ loop = "select"
    /\ \E c \in Callers : reply[c].kind = "write_err"
    /\ \E i \in Ids : pending[i] # 0 /\ reply[pending[i]].kind = "open"

\* C6: an envelope whose id has no entry in the pending map changes neither
\* the map nor any reply channel and leaves the task in its select; and a
\* reply channel that was resolved is never resolved again.
C6_UnknownIdDropped ==
    /\ [][(LoopReadLine /\ ParsesAsEnvelope(<<Head(stdoutPipe)>>)
                /\ pending[Head(stdoutPipe).id] = 0) =>
            /\ pending' = pending
            /\ reply' = reply
            /\ loop' = "select"
            /\ line_buf' = <<>>]_vars
    /\ [][\A c \in Callers :
            reply[c].kind \notin {"none", "open"} => reply'[c] = reply[c]]_vars

\* A caller was answered, a second envelope for its id is the next line, and
\* another request is still pending.
C6_Witness ==
    /\ loop = "select"
    /\ stdoutPipe # <<>>
    /\ ParsesAsEnvelope(<<Head(stdoutPipe)>>)
    /\ pending[Head(stdoutPipe).id] = 0
    /\ \E c \in Callers : reply[c].kind = "ok" /\ callerId[c] = Head(stdoutPipe).id
    /\ \E i \in Ids : pending[i] # 0

\* C7: a line that does not parse as a success or error envelope is skipped:
\* the task stays in its select, the pending map and the reply channels are
\* as before, and the buffer is empty for the lines that follow.
C7_MalformedSkipped ==
    [][((LoopReadLine \/ LoopReadErr) /\ ~ParsesAsEnvelope(<<Head(stdoutPipe)>>)) =>
        /\ loop' = "select"
        /\ pending' = pending
        /\ reply' = reply
        /\ line_buf' = <<>>]_vars

\* C8: shutdown() sends at most once on one instance: a call that finds the
\* sender sends the signal, a call that finds the slot empty changes nothing
\* but its own position and the lock.
C8_ShutdownIdempotent ==
    /\ [](sends <= 1)
    /\ [](loop # "none" => (shutdown_tx = "some" <=> sends = 0))
    /\ [][\A t \in Shutters : (shutPc[t] = "locked" /\ shutPc'[t] = "done") =>
            IF sends = 0
            THEN sends' = 1 /\ signal'
            ELSE UNCHANGED <<regVars, callVars, childVars, taskVars, queue, reply,
                             shutdown_tx, signal, sends>>]_vars

\* Every shutdown() call has returned and one signal was sent.
C8_Witness ==
    /\ \A t \in Shutters : shutPc[t] = "done"
    /\ sends = 1

\* Starting, Running, ShuttingDown, Terminated as 0..3.
LifecycleRank ==
    CASE loop = "none" -> 0
      [] loop = "exited" -> 3
      [] signal -> 2
      [] OTHER -> 1

\* C9: the lifecycle never moves back; once the task has ended it stays
\* ended, nothing more is written to the child's stdin, and a call that
\* sends its request then gets an error at once.
C9_LifecycleForward ==
    /\ [][LifecycleRank' >= LifecycleRank]_vars
    /\ [][loop = "exited" =>
            /\ loop' = "exited"
            /\ stdinPipe' <= stdinPipe
            /\ \A c \in Callers :
                (callerPc[c] # "sent" /\ callerPc'[c] = "sent") =>
                    ResultOf(reply'[c]).kind = "Err: Plugin process channel closed"]_vars

\* A call made after the task ended returned the channel-closed error.
C9_Witness ==
    /\ loop = "exited"
    /\ \E c \in Callers : reply[c].kind = "send_err"

\* C10: a load whose spawn fails returns the error, starts no child and no
\* task, and leaves the registry as it was.
C10_SpawnFailure ==
    [][((\E m \in Manifests, e \in BOOLEAN, s \in BOOLEAN : LoadPluginFromDir(m, e, s))
            /\ loadResult' = "err_spawn") =>
        /\ registry' = registry
        /\ loop' = "none"
        /\ child' = "none"]_vars

\* The last load failed at the spawn and the registry still holds the driver
\* that was registered under the id before.
C10_Witness ==
    /\ loadResult = "err_spawn"
    /\ registry[PluginId] = OtherDriver
    /\ loop = "none"

\* The drivers that unregister_driver calls have taken out of the registry.
RemovedDrivers == {unregGot[t].d : t \in Shutters} \ {NoDriver}

\* C11: unregister_driver on a registered id takes the entry out of the map
\* and gets its driver; a driver taken out is never returned by a later
\* get_driver or list_drivers; no driver's shutdown is invoked twice, and it
\* has been invoked once when unregister_driver has returned true; of the
\* unregister_driver calls that race for one entry only one gets the driver.
C11_UnregisterOnce ==
    /\ [][\A t \in Shutters, i \in DriverIds :
            (UnregisterRemove(t, i) /\ registry[i] # NoDriver) =>
                /\ registry'[i] = NoDriver
                /\ unregGot'[t].d = registry[i]
                /\ shutPc'[t] = "removed"]_vars
    /\ [][/\ \A i \in DriverIds : GetDriver(i) => lookup'.d \notin RemovedDrivers
          /\ ListDrivers => \A k \in DOMAIN lookup'.manifests :
                                lookup'.manifests[k].of \notin RemovedDrivers]_vars
    /\ [](\A d \in Drivers : shutdownCalls[d] <= 1)
    /\ [](\A t \in Shutters :
            (UnregisterReturned(t) /\ UnregisterResult(t)) =>
                shutdownCalls[unregGot[t].d] = 1)
    /\ [](\A t, u \in Shutters :
            (t # u /\ unregGot[t].d # NoDriver) => unregGot[t].d # unregGot[u].d)

\* Two unregister_driver calls for one id overlapped: the first has removed
\* the driver and returned true after one shutdown, the second, which started
\* before the first returned, got nothing and returned false; list_drivers,
\* called afterwards, returned the other drivers without it.
C11_Witness ==
    \E t, u \in Shutters :
        /\ t # u
        /\ unregGot[t].id = unregGot[u].id
        /\ UnregisterReturned(t) /\ UnregisterResult(t)
        /\ UnregisterReturned(u) /\ ~UnregisterResult(u)
        /\ shutdownCalls[unregGot[t].d] = 1
        /\ lookup.fn = "list_drivers"
        /\ lookup.manifests # <<>>
        /\ \A k \in DOMAIN lookup.manifests : lookup.manifests[k].id # unregGot[t].id

\* C12: with calls in flight on the plugin driver, every unregister_driver
\* call that has removed the driver returns, get_driver can be called at any
\* time, and every call that is in flight on the removed driver gets a reply
\* or an error.
C12_UnregisterNoDeadlock ==
    /\ \A t \in Shutters :
        (shutPc[t] \in {"removed", "locked"}) ~> UnregisterReturned(t)
    /\ [](\A i \in DriverIds : ENABLED GetDriver(i))
    /\ \A c \in Callers :
        (ThisDriver \in RemovedDrivers /\ (InFlight(c) \/ cur.c = c)) ~> Returned(c)

\* C13: register_driver puts the new instance under its id, in place of the
\* one that was there, and leaves the other ids alone; get_driver returns the
\* entry the map holds; every entry is stored under its own manifest id and
\* list_drivers never shows two drivers of one id.
C13_OnePerId ==
    /\ [][\A i \in DriverIds :
            RegisterDriver(i) =>
                /\ registry'[i] = Instance(i, instCount[i] + 1)
                /\ \A j \in DriverIds \ {i} : registry'[j] = registry[j]]_vars
    /\ [][\A i \in DriverIds : GetDriver(i) => lookup'.d = registry[i]]_vars
    /\ [](\A i \in DriverIds : registry[i] # NoDriver => ManifestId(registry[i]) = i)
    /\ [](\A a, b \in DOMAIN lookup.manifests :
            a # b => lookup.manifests[a].id # lookup.manifests[b].id)

\* A second instance was registered under an id that was present, and
\* get_driver returned the second one.
C13_Witness ==
    \E i \in DriverIds :
        /\ instCount[i] = 2
        /\ \A t \in Shutters : shutPc[t] = "idle"
        /\ registry[i] = Instance(i, 2)
        /\ lookup = Got(i, Instance(i, 2))

\* C14: unregister_driver on an id without an entry returns false at once;
\* the map, the shutdown counts and the plugin process are as before, and a
\* call that has returned does nothing more.
C14_UnregisterUnknown ==
    /\ [][\A t \in Shutters, i \in DriverIds :
            (UnregisterRemove(t, i) /\ registry[i] = NoDriver) =>
                /\ registry' = registry
                /\ shutdownCalls' = shutdownCalls
                /\ shutPc'[t] = "done"
                /\ unregGot'[t].d = NoDriver
                /\ UNCHANGED <<shutdown_tx, signal, sends, mutex, childVars, taskVars>>]_vars
    /\ [][\A t \in Shutters :
            shutPc[t] = "done" => (shutPc'[t] = "done" /\ unregGot'[t] = unregGot[t])]_vars
    /\ [](\A t \in Shutters :
            (UnregisterReturned(t) /\ ~UnregisterResult(t)) => unregGot[t].d \notin Drivers)

\* unregister_driver returned false for an id that has no entry while
\* drivers are registered under the other ids.
C14_Witness ==
    \E t \in Shutters :
        /\ UnregisterReturned(t) /\ ~UnregisterResult(t)
        /\ unregGot[t].id \in DriverIds
        /\ registry[unregGot[t].id] = NoDriver
        /\ \A i \in DriverIds \ {unregGot[t].id} : registry[i] # NoDriver
        /\ \A d \in Drivers : shutdownCalls[d] = 0

\* C15: list_drivers returns one manifest for each driver the map holds at
\* that moment and nothing else, in strictly ascending byte order of the id.
C15_ListSorted ==
    [][ListDrivers =>
        /\ lookup'.fn = "list_drivers"
        /\ Len(lookup'.manifests) = Cardinality(Registered(registry))
        /\ {lookup'.manifests[k] : k \in DOMAIN lookup'.manifests} =
                {Manifest(registry[i]) : i \in Registered(registry)}
        /\ \A a, b \in DOMAIN lookup'.manifests :
                a < b => IdLess(lookup'.manifests[a].id, lookup'.manifests[b].id)]_vars

\* All three ids are registered and list_drivers returned them: mysql,
\* plugin, sqlite.
C15_Witness ==
    /\ Len(lookup.manifests) = 3
    /\ lookup.manifests[1].id = "mysql"
    /\ lookup.manifests[2].id = PluginId
    /\ lookup.manifests[3].id = "sqlite"
    /\ \A i \in DriverIds : registry[i] # NoDriver

\* C16: of the pools created for one key at most one is open: concurrent
\* first calls for a key do not leave two pools for it.
C16_OnePoolPerKey ==
    \A p, q \in createdPools :
        (p # q /\ p.engine = q.engine /\ p.key = q.key) =>
            (p \in closedPools \/ q \in closedPools)

\* No get_*_pool call for the key is between its lookup and its insert, and
\* no pool of the key was closed.
Quiescent(e, k) ==
    /\ \A g \in Getters :
        /\ getPc[g] = "connect" => getArgs[g] # [engine |-> e, key |-> k]
        /\ getPc[g] = "store" => (getRes[g].engine # e \/ getRes[g].key # k)
    /\ PoolsOf(e, k) \cap closedPools = {}

\* C17: once the get_*_pool calls for a key have returned, one of them with
\* a pool, and no pool of the key was closed, the table holds a pool created
\* for that key; and a call that finds a pool in the table returns that pool
\* and creates none, while a call goes on to create one only when the table
\* has none.
C17_Converges ==
    /\ [](\A g \in Getters :
            (ReturnedOk(g) /\ Quiescent(getRes[g].engine, getRes[g].key)) =>
                /\ getRes[g].key \in DOMAIN pools[getRes[g].engine]
                /\ pools[getRes[g].engine][getRes[g].key] \in
                        PoolsOf(getRes[g].engine, getRes[g].key))
    /\ [][\A g \in Getters, e \in Engines, params \in PoolParams, cid \in PoolConnIds :
            GetPoolStart(g, e, params, cid) =>
                IF BuildConnectionKey(params, cid) \in DOMAIN pools[e]
                THEN /\ getPc'[g] = "done"
                     /\ getRes'[g] = pools[e][BuildConnectionKey(params, cid)]
                     /\ createdPools' = createdPools
                     /\ pools' = pools
                ELSE getPc'[g] = "connect"]_vars

\* Two calls raced on a key and created a pool each; both have returned, and
\* the later calls of both callers returned the one pool the table holds.
C17_Witness ==
    \E p, q \in createdPools :
        /\ p # q /\ p.engine = q.engine /\ p.key = q.key
        /\ closedPools = {}
        /\ p.key \in DOMAIN pools[p.engine]
        /\ \A g \in Getters : getPc[g] = "done" /\ getRes[g] = pools[p.engine][p.key]

\* C19: close_pool_with_id removes the pool stored under the key it builds,
\* in the table of params.driver, and closes it; every other entry of the
\* three tables is as before, and no pool is closed when the key has no
\* pool or the driver has no table.
C19_CloseOneKey ==
    [][\A params \in PoolParams, cid \in PoolConnIds :
        ClosePoolWithId(params, cid) =>
            LET key == BuildConnectionKey(params, cid)
                e == TableOf(params.driver)
            IN  /\ \A e2 \in Engines :
                    /\ DOMAIN pools'[e2] = DOMAIN pools[e2] \ (IF e2 = e THEN {key} ELSE {})
                    /\ \A k \in DOMAIN pools'[e2] : pools'[e2][k] = pools[e2][k]
                /\ IF e \in Engines /\ key \in DOMAIN pools[e]
                   THEN closedPools' = closedPools \cup {pools[e][key]}
                   ELSE closedPools' = closedPools /\ pools' = pools
                /\ UNCHANGED <<createdPools, getPc, getArgs, getRes>>]_vars

\* A pool was closed, and a later close found no pool under its key, while
\* a table still holds a pool.
C19_Witness ==
    /\ lastClose = "no_pool"
    /\ closedPools # {}
    /\ \E e \in Engines : pools[e] # EmptyMap

\* C18: of two calls with a stable connection id each, the keys are equal
\* exactly when driver and connection id are equal, whatever host, port and
\* database are.
C18_StableKey ==
    keyOut # <<>> =>
        ((IsSome(keyArgs[1].connection_id) /\ IsSome(keyArgs[2].connection_id)) =>
            (keyOut[1] = keyOut[2] <=>
                /\ keyArgs[1].params.driver = keyArgs[2].params.driver
                /\ keyArgs[1].connection_id = keyArgs[2].connection_id))

\* Two calls with the same driver and connection id, and different host and
\* port, returned the same key.
C18_Witness ==
    /\ keyOut # <<>>
    /\ keyOut[1] = keyOut[2]
    /\ IsSome(keyArgs[1].connection_id)
    /\ keyArgs[1].connection_id = keyArgs[2].connection_id
    /\ keyArgs[1].params.host # keyArgs[2].params.host
    /\ keyArgs[1].params.port # keyArgs[2].params.port

\* The statement, trimmed at the start and in upper case, starts with one of
\* the six words.
SelectFamily(query) ==
    \E w \in {KW_SELECT, KW_WITH, KW_SHOW, KW_DESCRIBE, KW_EXPLAIN, KW_FROM} :
        StartsWith(ToUppercase(TrimStart(query)), w)

\* C20: execute_query takes a statement for a SELECT exactly when it is of
\* the SELECT family; any other statement returns the number of rows it
\* changed, with no columns, no rows and no pagination.
C20_Classification ==
    lastResult # <<>> =>
        /\ lastResult.is_select <=> SelectFamily(lastQuery.query)
        /\ ~SelectFamily(lastQuery.query) =>
                /\ lastResult.columns = <<>>
                /\ lastResult.rows = <<>>
                /\ lastResult.affected_rows = lastQuery.db.affected
                /\ lastResult.pagination = {}

IsAscii(s) == \A k \in DOMAIN s : Utf8Len(s[k]) = 1

\* C21: for a statement of the SELECT family with a limit L, execute_query
\* takes page 0 for page 1: the offset it uses is 0 and the result is the
\* first page. (Statements of ASCII characters, which the database runs:
\* C24 is about the others.)
C21_PageZero ==
    (/\ lastResult # <<>>
     /\ SelectFamily(lastQuery.query) /\ IsAscii(lastQuery.query)
     /\ IsSome(lastQuery.limit) /\ lastQuery.page = 0
     /\ lastQuery.db.fetch_ok) =>
        /\ lastResult.status = "ok"
        /\ lastResult.offset = {U32(0)}
        /\ lastResult.rows = PageRows(lastQuery.db.rows, Unwrap(lastQuery.limit), U32(0))
        /\ \E pg \in lastResult.pagination : pg.page = 1

\* C22: for every page >= 1 and page size >= 1 that a u32 can carry,
\* calculate_offset returns (page - 1) * page_size; the four examples of the
\* unit test among them.
C22_OffsetExact ==
    (fnOut # <<>> /\ fnArgs.fn = "calculate_offset" /\ ~IsZero(fnArgs.page)
                  /\ ~IsZero(fnArgs.page_size)) =>
        /\ ~fnOut.panic
        /\ Widen(fnOut.value) = Product(SubBytes(fnArgs.page, U32(1), 0).bytes, fnArgs.page_size)
        /\ (fnArgs.page = U32(3) /\ fnArgs.page_size = U32(50)) => NatOf(fnOut.value) = 100
        /\ (fnArgs.page = U32(10) /\ fnArgs.page_size = U32(25)) => NatOf(fnOut.value) = 225

\* C23: where the statement has a trailing ORDER BY clause, the page's
\* statement is SELECT * FROM (<statement without the clause>) AS <wrapper>
\* <clause> LIMIT L OFFSET offset; where it has none, the statement is
\* wrapped as it is with LIMIT L OFFSET offset.
C23_OrderByOutside ==
    (/\ lastResult # <<>>
     /\ "order" \in DOMAIN lastQuery
     /\ IsSome(lastQuery.limit)
     /\ lastResult.offset # {}) =>
        IF lastQuery.order # <<>>
        THEN /\ Len(lastResult.final_query) = 8
             /\ lastResult.final_query[1] = "SELECT * FROM ("
             /\ lastResult.final_query[2] = lastQuery.body
             /\ lastResult.final_query[4] = lastQuery.order
             /\ lastResult.final_query[6] = Unwrap(lastQuery.limit)
             /\ lastResult.final_query[8] = Unwrap(lastResult.offset)
        ELSE /\ Len(lastResult.final_query) = 6
             /\ lastResult.final_query[1] = "SELECT * FROM ("
             /\ lastResult.final_query[2] = lastQuery.query
             /\ lastResult.final_query[4] = Unwrap(lastQuery.limit)
             /\ lastResult.final_query[6] = Unwrap(lastResult.offset)

\* The words of a statement: two statements with the same words differ in
\* whitespace only.
RECURSIVE Tokens(_)
Tokens(s) ==
    LET t == TrimStart(s)
        ends == {i \in 1..Len(t) : t[i] \in WhiteSpace}
        n == IF ends = {} THEN Len(t) ELSE Min(ends) - 1
    IN  IF t = <<>> THEN <<>>
        ELSE <<SubSeq(t, 1, n)>> \o Tokens(SubSeq(t, n + 1, Len(t)))

\* C24: on a statement with one trailing ORDER BY clause, remove_order_by(q),
\* a space and extract_order_by(q) give a statement equivalent to q; on a
\* statement without ORDER BY remove_order_by returns q and extract_order_by
\* the empty string.
C24_OrderByInverse ==
    (fnOut # <<>> /\ fnArgs.fn = "order_by") =>
        /\ ~fnOut.remove.panic
        /\ ~fnOut.extract.panic
        /\ IF fnArgs.order # <<>>
           THEN Tokens(fnOut.remove.value \o <<" ">> \o fnOut.extract.value)
                    = Tokens(QueryOf(fnArgs))
           ELSE /\ fnOut.remove.value = QueryOf(fnArgs)
                /\ fnOut.extract.value = <<>>

\* C25: a paginated execute_query whose COUNT(*) wrapper fails does not fail
\* for that: the page's statement is still run, and where it runs the call
\* returns its columns and rows with total_rows 0. (Calls that panic in the
\* ORDER BY handling are C24's.)
C25_CountTolerated ==
    (/\ lastResult # <<>>
     /\ lastResult.count_ran
     /\ ~lastQuery.db.count_ok
     /\ lastResult.status # "panic") =>
        /\ lastResult.final_query # <<>>
        /\ lastResult.status = (IF lastQuery.db.fetch_ok THEN "ok" ELSE "err")
        /\ lastQuery.db.fetch_ok =>
              /\ \E pg \in lastResult.pagination : pg.total_rows = 0
              /\ lastResult.rows = PageRows(lastQuery.db.rows, Unwrap(lastQuery.limit),
                                            Unwrap(lastResult.offset))
              /\ lastResult.rows # <<>> => lastResult.columns = Columns(lastQuery.db.rows)

C25_Witness ==
    /\ lastResult # <<>>
    /\ lastResult.count_ran
    /\ ~lastQuery.db.count_ok
    /\ lastQuery.db.rows > 0
    /\ lastResult.status = "ok"
    /\ lastResult.rows # <<>>
    /\ \E pg \in lastResult.pagination : pg.total_rows = 0

\* An occurrence of SELECT * FROM <table>, with "rowid, " after SELECT or as
\* it was written.
Occurrence(kw, name, quoted, rest, inject) ==
    SubSeq(kw, 1, 7) \o (IF inject THEN ROWID ELSE <<>>) \o SubSeq(kw, 8, Len(kw))
        \o NameText(name, quoted) \o rest

\* C26: every occurrence of SELECT * FROM <table> whose table has no explicit
\* primary key gains one "rowid, ", an occurrence whose table has one is not
\* rewritten, and an occurrence in front of a parenthesised subquery is not
\* rewritten.
C26_RowidInjection ==
    (fnOut # <<>> /\ fnArgs.fn = "inject_rowid") =>
        /\ ~fnOut.panic
        /\ fnOut.value =
            fnArgs.pre \o
            (IF fnArgs.target.kind = "table"
             THEN Occurrence(fnArgs.kw, fnArgs.target.name, fnArgs.target.quoted,
                             fnArgs.target.rest,
                             fnArgs.target.name \notin fnArgs.pk_tables)
             ELSE fnArgs.kw \o <<"(">>
                    \o Occurrence(SELECT_STAR_FROM, fnArgs.target.name, FALSE, <<>>,
                                  fnArgs.target.name \notin fnArgs.pk_tables)
                    \o <<")">> \o fnArgs.target.rest)

\* C27: decode_blob_wire_format(encode_blob(bytes)) is bytes for every blob
\* of at most MAX_BLOB_PREVIEW_SIZE bytes, and
\* decode_blob_wire_format(encode_blob_full(bytes)) is bytes for every blob.
C27_BlobRoundTrip ==
    (fnOut # <<>> /\ fnArgs.fn \in {"encode_blob", "encode_blob_full"}) =>
        /\ (fnArgs.fn = "encode_blob" /\ Len(fnArgs.data) <= MAX_BLOB_PREVIEW_SIZE)
              => fnOut.decoded = {fnArgs.data}
        /\ fnArgs.fn = "encode_blob_full" => fnOut.decoded = {fnArgs.data}

C27_Witness ==
    /\ fnOut # <<>>
    /\ fnArgs.fn = "encode_blob_full"
    /\ Len(fnArgs.data) > MAX_BLOB_PREVIEW_SIZE
    /\ Len(fnArgs.data) % 3 # 0
    /\ fnOut.decoded = {fnArgs.data}

\* C28: for a blob of more than MAX_BLOB_PREVIEW_SIZE bytes encode_blob
\* writes the whole length as the size and the first MAX_BLOB_PREVIEW_SIZE
\* bytes as the payload, and decode_blob_wire_format returns those bytes.
C28_BlobPreview ==
    (fnOut # <<>> /\ fnArgs.fn = "encode_blob"
                  /\ Len(fnArgs.data) > MAX_BLOB_PREVIEW_SIZE) =>
        /\ fnOut.wire = BLOB_PREFIX \o FormatInt(Len(fnArgs.data)) \o <<":">> \o fnArgs.mime
                            \o <<":">>
                            \o Base64Encode(SubSeq(fnArgs.data, 1, MAX_BLOB_PREVIEW_SIZE))
        /\ fnOut.decoded = {SubSeq(fnArgs.data, 1, MAX_BLOB_PREVIEW_SIZE)}

C28_Witness ==
    /\ fnOut # <<>>
    /\ fnArgs.fn = "encode_blob"
    /\ Len(fnArgs.data) > MAX_BLOB_PREVIEW_SIZE
    /\ fnOut.decoded = {SubSeq(fnArgs.data, 1, MAX_BLOB_PREVIEW_SIZE)}
    /\ fnOut.decoded # {fnArgs.data}

\* C29: decode_blob_wire_format returns None for every string that does not
\* start with the wire prefix, the empty string, "BLOB_NOT_VALID" and
\* "__USE_DEFAULT__" among them, and the write path hands such a string on as
\* the string it is (the sentinel as DEFAULT).
C29_PlainStrings ==
    (/\ fnOut # <<>>
     /\ fnArgs.fn = "decode_blob_wire_format"
     /\ ~StartsWith(fnArgs.value, BLOB_PREFIX)
     /\ ~StartsWith(fnArgs.value, BLOB_FILE_REF_PREFIX)) =>
        /\ fnOut.decoded = {}
        /\ fnArgs.value # USE_DEFAULT =>
              /\ fnOut.sql.kind = "literal"
              /\ (\A k \in DOMAIN fnArgs.value : fnArgs.value[k] # "'")
                    => fnOut.sql.text = Quoted(fnArgs.value)

C29_Witness ==
    /\ fnOut # <<>>
    /\ fnArgs.fn = "decode_blob_wire_format"
    /\ fnArgs.value = <<"a", ":", "b", ":">>
    /\ fnOut.decoded = {}
    /\ fnOut.sql.kind = "literal"

\* What differs between two column descriptions, of name, type, nullability
\* and default value.
Changes(old, new) ==
    {f \in {"name", "data_type", "is_nullable", "default_value"} : old[f] # new[f]}

\* C30: get_alter_column_sql returns one statement for each of name, type,
\* nullability and default value that differs between the old and the new
\* description, and an error where none differs.
C30_AlterColumn ==
    (fnOut # <<>> /\ fnArgs.fn = "get_alter_column_sql") =>
        IF Changes(fnArgs.old, fnArgs.new) = {}
        THEN fnOut.status = "err"
        ELSE /\ fnOut.status = "ok"
             /\ Len(fnOut.stmts) = Cardinality(Changes(fnArgs.old, fnArgs.new))
             /\ {fnOut.stmts[k].kind : k \in DOMAIN fnOut.stmts}
                    = Changes(fnArgs.old, fnArgs.new)

\* What the two implementations of execute_query make of the same call.
BothResults(q) ==
    [duckdb |-> ExecuteQueryDuckdb(q.query, q.limit, q.page, q.db, q.overflow_checks),
     mysql |-> ExecuteQueryMysql(q.query, q.limit, q.page, q.db, q.overflow_checks)]

\* The pieces of a page's statement without the alias of the wrapper, which
\* is the one piece the implementations name differently.
Shape(final_query) ==
    [k \in DOMAIN final_query |->
        IF k = 3 THEN "alias" ELSE final_query[k]]

\* C31: the plugin's execute_query and the in-process driver's are the same
\* algorithm: on every statement, limit and page they agree on whether the
\* statement is of the SELECT family, on whether the result has pagination
\* metadata, on the offset, on whether the COUNT(*) wrapper is run and on the
\* page's statement.
C31_SameAlgorithm ==
    lastResult # <<>> =>
        LET both == BothResults(lastQuery)
        IN  /\ lastResult = both[lastQuery.impl]
            /\ both.duckdb.is_select = both.mysql.is_select
            /\ (both.duckdb.pagination = {}) <=> (both.mysql.pagination = {})
            /\ both.duckdb.offset = both.mysql.offset
            /\ both.duckdb.count_ran = both.mysql.count_ran
            /\ Shape(both.duckdb.final_query) = Shape(both.mysql.final_query)

\* C32: where a statement has several occurrences of SELECT * FROM <table>
\* to rewrite, each "rowid, " is right behind the SELECT keyword of its own
\* occurrence, and the text around the occurrences is as it was: no
\* insertion moves the place of another.
C32_BackToFront ==
    (fnOut # <<>> /\ fnArgs.fn = "inject_rowid_many") =>
        /\ ~fnOut.panic
        /\ fnOut.value =
            fnArgs.pre \o
            JoinOccurrences([k \in DOMAIN fnArgs.occs |->
                                Occurrence(fnArgs.occs[k].kw, fnArgs.occs[k].name, FALSE, <<>>,
                                           fnArgs.occs[k].name \notin fnArgs.pk_tables)],
                            KW_UNION)

\* C33: no reply is lost by the multiplexing. A well-formed reply line read
\* at once while its id is in the pending map resolves the caller stored
\* under the id; and the front of such a line, once read, stays in the buffer
\* until the rest is read and the caller is resolved with the reply, whatever
\* request comes in between.
C33_NoReplyLost ==
    [][\A l \in Envelopes :
        /\ (/\ LoopReadLine
            /\ Head(stdoutPipe) = l
            /\ pending[l.id] # 0
            /\ reply[pending[l.id]].kind = "open") =>
                reply'[pending[l.id]] = l
        /\ (/\ line_buf = <<FrontOf(l)>>
            /\ pending[l.id] # 0
            /\ reply[pending[l.id]].kind = "open"
            /\ loop' # "exited") =>
                \/ line_buf' = line_buf
                \/ reply'[pending[l.id]] = l]_vars

\* C34: the task does not stay inside a write of a request: while the write
\* is blocked because the child does not read its stdin, a shutdown signal
\* still ends the task and a reply line in the child's stdout is still read.
C34_WriteNotStuck ==
    /\ (loop = "writing" /\ signal) ~> (loop = "exited")
    /\ (loop = "writing" /\ stdoutPipe # <<>>) ~> (stdoutPipe = <<>>)

\* C35: register_driver over the plugin's driver does not invoke the
\* shutdown of the driver it replaces; once the last handle to the replaced
\* driver is dropped its child process is killed, so that no child process
\* outlives the handles to its driver.
C35_ReplacedChildKilled ==
    /\ [][RegisterOther => UNCHANGED <<signal, sends, shutdown_tx, shutdownCalls>>]_vars
    /\ (registry[PluginId] = OtherDriver /\ Dropped /\ child = "alive") ~> (child # "alive")

\* C36: a closed pool is not resurrected: when close_pool_with_id returns
\* the table holds no pool for the key, and a get_*_pool call that was
\* between its lookup and its insert for the key when the close ran does
\* not insert its pool afterwards.
C36_NoResurrection ==
    /\ [][\A c \in PoolCalls :
            (ClosePoolWithId(c[1], c[2]) /\ TableOf(c[1].driver) \in Engines) =>
                BuildConnectionKey(c[1], c[2]) \notin DOMAIN pools'[TableOf(c[1].driver)]]_vars
    /\ [][\A g \in Getters : (GetPoolStore(g) /\ g \in overtaken) => pools' = pools]_vars

\* C37: no pool is leaked: when close_all_pools returns and no get_*_pool
\* call is in progress, the three tables are empty and every pool that was
\* ever created has been closed, the pools of callers that raced on one key
\* among them.
C37_NoLeak ==
    [][(CloseAllPools /\ \A g \in Getters : getPc[g] \in {"idle", "done"}) =>
        /\ \A e \in Engines : pools'[e] = EmptyMap
        /\ createdPools' \subseteq closedPools']_vars

\* C38: a key built from a stable connection id is never equal to a key
\* built from host, port and database of a connection without one.
C38_FormsApart ==
    keyOut # <<>> =>
        ((IsSome(keyArgs[1].connection_id) /\ ~IsSome(keyArgs[2].connection_id)) =>
            keyOut[1] # keyOut[2])

\* C39: once a session is revoked it stays revoked and no heartbeat
\* refreshes it; is_valid_token is false for its token, and the auth layer
\* lets no request with that token through to a path that is not public: it
\* answers 401.
C39_RevokedForGood ==
    [][\A t \in DOMAIN sessions : sessions[t].revoked =>
          /\ t \in DOMAIN sessions'
          /\ sessions'[t] = sessions[t]
          /\ ~IsValidToken(sessions', t)
          /\ \A c \in Clients :
                (inflight'[c] # inflight[c] /\ inflight'[c] # NoRequest) =>
                    ~(inflight'[c].token = {t} /\ ~IsPublicPath(inflight'[c].path))
          /\ \A c \in Clients, req \in Requests :
                (AuthLayer(c, req) /\ req.token = {t} /\ ~IsPublicPath(req.path)) =>
                    lastResponse' = Response(c, req, "401")]_vars

\* A session that a heartbeat had refreshed went without one for more than
\* the timeout and is revoked, and its next heartbeat was answered 401.
C39_Witness ==
    \E t \in DOMAIN sessions :
        /\ sessions[t].revoked
        /\ sessions[t].last_heartbeat > 0
        /\ now - sessions[t].last_heartbeat > HEARTBEAT_TIMEOUT_SECS
        /\ lastResponse.path = ApiHeartbeat
        /\ lastResponse.token = {t}
        /\ lastResponse.status = "401"

====
